---------------------------- MODULE Spec2Model ----------------------------
(***************************************************************************)
(* A model of the attendance / grade / roster derivation layer of the      *)
(* academic portal: the status normalizer and the attendance statistics    *)
(* (src/lib/attendanceUtils.ts), the roster id normalizer                   *)
(* (src/lib/rosterUtils.ts), the roster reconciliation of the teacher      *)
(* pages and the grade aggregations of the admin, teacher, student and     *)
(* parent pages.                                                           *)
(*                                                                         *)
(* JavaScript strings are sequences of one-character strings, JavaScript   *)
(* numbers are IEEE-754 binary64 values (section "Numbers").               *)
(***************************************************************************)
EXTENDS Integers, Sequences, FiniteSets, TLC

VARIABLES
  status,        \* normalizeAttendanceStatus: the raw argument
  normalized,    \* normalizeAttendanceStatus: the returned value, "pending" before the call
  records,       \* calculateAttendanceStats: the argument, a list of attendance records
  stats,         \* calculateAttendanceStats: <<>> before the call, <<returned object>> after
  grouped,       \* groupAttendanceByCourse(records): <<>> before the call, <<outcome>> after
  idsInput,      \* normalizeStudentIds: the argument (a course's studentIds field)
  idsOutput,     \* normalizeStudentIds: <<>> before the call, <<outcome>> after
  user,          \* the signed-in user: [id, role]
  courseTable,   \* backend: the courses, in the order getCourses returns them
  studentTable,  \* backend: the ids of the student profiles, in the order of getStudents
  attendanceTable,  \* backend: the attendance records
  gradeTable,    \* backend: the grades, in date order
  TeacherAttendance,  \* state of the TeacherAttendance page
  TeacherGrades,      \* state of the TeacherGrades page
  TeacherStudents,    \* state of the TeacherStudents page
  financeTable,       \* backend: the finance rows
  AdminClasses,       \* state of the AdminClasses page
  StudentResults,     \* state of the StudentResults page
  Performance,        \* state of the Performance page (parent)
  StudentFinance,     \* state of the StudentFinance page
  profileRequests,    \* per teacher page, the student-profile requests by id it has sent
  pendingEffects,     \* the effects React has scheduled and not yet run
  store,              \* store.ts: the in-memory store filled by bootstrap()
  tables,             \* backend: the tables the store and api.ts write to
  outcome,            \* the last write operation called: its name, the backend's
                      \* answer, how it ended and what it sent
  writeCalls,         \* the number of write operations called so far
  AdminFinance,       \* state of the AdminFinance page
  studentProfiles,    \* backend: the Student rows, [id, attendance]
  StudentDashboard,   \* state of the StudentDashboard page
  Children,           \* state of the Children page (parent)
  ParentDashboard,    \* state of the ParentDashboard page
  TeacherDashboard,   \* state of the TeacherDashboard page
  AdminDashboard,     \* state of the AdminDashboard page
  AdminReports,       \* state of the AdminReports page
  AdminCourses,       \* state of the AdminCourses page
  courseStudents,     \* api.getStudentsByCourseId: the course asked for and the students returned
  authUser,           \* auth context: the user, <<>> for null or <<profile>>
  authLoading,        \* auth context: loading
  session,            \* supabase auth: the session, <<>> for none or <<[email, role]>>
  usersTable,         \* backend: the rows of Users, [id, email, role]
  authTasks,          \* auth provider: the calls in flight, by caller
  uuids,               \* the number of uuid() calls so far
  loaders,             \* the page loaders: by page, the phase of the load, the loading flag, what is shown
  clients,            \* the browser sessions: by session, its store's finance records and its page
  fetches,            \* Performance: the loadRecords calls so far, [child, state]
  AdminUsers,         \* state of the AdminUsers page
  toasts,             \* the toasts shown so far
  storeTasks,          \* store.ts: the operations waiting for the backend's answer
  payments            \* payFee: the finance record at bootstrap, the amount the last call applied and the sum applied so far

varsStatus == <<status, normalized>>
varsStats == <<records, stats, grouped>>
varsIds == <<idsInput, idsOutput>>
varsBackend == <<user, courseTable, studentTable, attendanceTable, gradeTable, financeTable>>
varsStore == <<store, tables, outcome, writeCalls>>
varsDashboards == <<studentProfiles, StudentDashboard, Children, ParentDashboard>>
varsAdmin == <<TeacherDashboard, AdminDashboard, AdminReports, AdminCourses, courseStudents>>
varsPages == <<AdminFinance, varsDashboards, varsAdmin>>
varsTeacher == <<TeacherAttendance, TeacherGrades, TeacherStudents,
                 profileRequests, pendingEffects>>
varsViews == <<AdminClasses, StudentResults, Performance, StudentFinance>>

varsAuth == <<authUser, authLoading, session, usersTable, authTasks, uuids>>
varsLoaders == <<loaders>>
varsAsync == <<clients, fetches, AdminUsers, toasts, storeTasks>>
varsPayments == <<payments>>
vars == <<status, normalized, records, stats, grouped, idsInput, idsOutput,
          user, courseTable, studentTable, attendanceTable, gradeTable,
          TeacherAttendance, TeacherGrades, TeacherStudents,
          financeTable, AdminClasses, StudentResults, Performance, StudentFinance,
          profileRequests, pendingEffects, store, tables, outcome, writeCalls, AdminFinance,
          studentProfiles, StudentDashboard, Children, ParentDashboard,
          TeacherDashboard, AdminDashboard, AdminReports, AdminCourses, courseStudents,
          authUser, authLoading, session, usersTable, authTasks, uuids,
          loaders,
          clients, fetches, AdminUsers, toasts, storeTasks,
          payments>>

(***************************************************************************)
(* Strings                                                                 *)
(***************************************************************************)

\* The characters of a string literal, in order.
Chars(t) == [i \in 1..Len(t) |-> SubSeq(t, i, i)]

UpperCase == "ABCDEFGHIJKLMNOPQRSTUVWXYZ"
LowerCase == "abcdefghijklmnopqrstuvwxyz"

\* White space as String.prototype.trim sees it (the part the inputs use):
\* space, tab, line feed, carriage return, form feed.
WhiteSpace == {" ", "\t", "\n", "\r", "\f"}

\* String.prototype.toLowerCase, character by character.
toLowerCase(s) ==
  [i \in 1..Len(s) |->
     IF \E k \in 1..Len(UpperCase) : SubSeq(UpperCase, k, k) = s[i]
     THEN LET k == CHOOSE k \in 1..Len(UpperCase) : SubSeq(UpperCase, k, k) = s[i]
          IN SubSeq(LowerCase, k, k)
     ELSE s[i]]

\* String.prototype.toUpperCase, character by character.
toUpperCase(s) ==
  [i \in 1..Len(s) |->
     IF \E k \in 1..Len(LowerCase) : SubSeq(LowerCase, k, k) = s[i]
     THEN LET k == CHOOSE k \in 1..Len(LowerCase) : SubSeq(LowerCase, k, k) = s[i]
          IN SubSeq(UpperCase, k, k)
     ELSE s[i]]

\* String.prototype.trim: white space removed from both ends.
trim(s) ==
  LET solid == {i \in 1..Len(s) : s[i] \notin WhiteSpace}
  IN IF solid = {} THEN <<>>
     ELSE SubSeq(s, CHOOSE i \in solid : \A j \in solid : i <= j,
                    CHOOSE i \in solid : \A j \in solid : j <= i)

(***************************************************************************)
(* JavaScript values that reach the normalizers.  Every value carries all  *)
(* payload fields; `t` says which one is meant (`items` for an array).     *)
(***************************************************************************)

JSNull == [t |-> "null", s |-> <<>>, n |-> 0, b |-> FALSE, items |-> <<>>]
JSUndefined == [t |-> "undefined", s |-> <<>>, n |-> 0, b |-> FALSE, items |-> <<>>]
JSString(cs) == [t |-> "string", s |-> cs, n |-> 0, b |-> FALSE, items |-> <<>>]
JSNumber(k) == [t |-> "number", s |-> <<>>, n |-> k, b |-> FALSE, items |-> <<>>]
JSBoolean(v) == [t |-> "boolean", s |-> <<>>, n |-> 0, b |-> v, items |-> <<>>]
JSArray(vs) == [t |-> "array", s |-> <<>>, n |-> 0, b |-> FALSE, items |-> vs]
JSObject == [t |-> "object", s |-> <<>>, n |-> 0, b |-> FALSE, items |-> <<>>]

Digits == "0123456789"

\* Number::toString of a natural number.
RECURSIVE NatToString(_)
NatToString(k) ==
  IF k < 10 THEN <<SubSeq(Digits, k + 1, k + 1)>>
  ELSE Append(NatToString(k \div 10), SubSeq(Digits, (k % 10) + 1, (k % 10) + 1))

RECURSIVE TemplateString(_)
RECURSIVE ArrayJoin(_)

\* Array.prototype.join(','), which Array.prototype.toString calls: null and
\* undefined elements give the empty string.
ArrayJoin(vs) ==
  IF vs = <<>> THEN <<>>
  ELSE LET first == IF Head(vs).t \in {"null", "undefined"} THEN <<>>
                    ELSE TemplateString(Head(vs))
       IN IF Len(vs) = 1 THEN first ELSE first \o <<",">> \o ArrayJoin(Tail(vs))

\* The template literal `${value}`: ToString of the value.
TemplateString(v) ==
  CASE v.t = "string" -> v.s
    [] v.t = "number" -> NatToString(v.n)
    [] v.t = "boolean" -> IF v.b THEN Chars("true") ELSE Chars("false")
    [] v.t = "null" -> Chars("null")
    [] v.t = "undefined" -> Chars("undefined")
    [] v.t = "array" -> ArrayJoin(v.items)
    [] v.t = "object" -> Chars("[object Object]")

(***************************************************************************)
(* Status normalizer (src/lib/attendanceUtils.ts)                          *)
(***************************************************************************)

\* The own properties of the object literal STATUS_MAP.
STATUS_MAP ==
  [key \in {Chars(w) : w \in {"present", "attended", "on-time", "ontime", "p", "1", "true",
                              "late", "tardy", "l",
                              "absent", "missed", "excused", "a", "0", "false"}} |->
     IF key \in {Chars(w) : w \in {"present", "attended", "on-time", "ontime", "p", "1", "true"}}
     THEN "present"
     ELSE IF key \in {Chars(w) : w \in {"late", "tardy", "l"}}
     THEN "late"
     ELSE "absent"]

\* STATUS_MAP is a plain object literal: a property it does not own is looked
\* up on Object.prototype, whose properties are these.
ObjectPrototypeKeys ==
  {Chars(w) : w \in {"constructor", "__proto__", "hasOwnProperty", "isPrototypeOf",
                     "propertyIsEnumerable", "toLocaleString", "toString", "valueOf",
                     "__defineGetter__", "__defineSetter__",
                     "__lookupGetter__", "__lookupSetter__"}}

\* The property read obj[key] on STATUS_MAP: an own property, else an inherited
\* one (an object or a function, written "inherited"), else undefined.
StatusMapGet(key) ==
  IF key \in DOMAIN STATUS_MAP THEN STATUS_MAP[key]
  ELSE IF key \in ObjectPrototypeKeys THEN "inherited"
  ELSE "undefined"

\* normalizeAttendanceStatus(status); null is written "null".
normalizeAttendanceStatus(raw) ==
  IF raw.t \in {"null", "undefined"} THEN "null"
  ELSE LET norm == toLowerCase(trim(TemplateString(raw)))
       IN IF norm = <<>> THEN "null"
          ELSE LET hit == StatusMapGet(norm)
               IN IF hit = "undefined" THEN "null" ELSE hit


(***************************************************************************)
(* Numbers.  A JavaScript number is an IEEE-754 binary64 value.  A finite  *)
(* non-negative one is written [k |-> "fin", m, e]: m is its significand   *)
(* as a bit sequence, most significant bit first, without leading or       *)
(* trailing zeros (<<>> for 0), and e is the binary exponent of m's last   *)
(* bit, so that the value is m * 2^e.  NaN and Infinity are values of      *)
(* their own.  Every operation rounds to nearest, ties to even.  The       *)
(* quantities of the program (counts, scores, fees) are non-negative.      *)
(***************************************************************************)

\* Bits of a binary64 significand.
Prec == 53

RECURSIVE Pow2(_)
Pow2(n) == IF n = 0 THEN 1 ELSE 2 * Pow2(n - 1)

RECURSIVE BitLen(_)
BitLen(n) == IF n = 0 THEN 0 ELSE 1 + BitLen(n \div 2)

BitsOfNat(n) == [i \in 1..BitLen(n) |-> (n \div Pow2(BitLen(n) - i)) % 2]

RECURSIVE NatOfBits(_)
NatOfBits(b) == IF b = <<>> THEN 0 ELSE 2 * NatOfBits(SubSeq(b, 1, Len(b) - 1)) + b[Len(b)]

Zeros(n) == [i \in 1..n |-> 0]

Ones(b) == {i \in 1..Len(b) : b[i] = 1}

StripLead(b) ==
  IF Ones(b) = {} THEN <<>>
  ELSE SubSeq(b, CHOOSE i \in Ones(b) : \A j \in Ones(b) : i <= j, Len(b))

\* The exact sum of two bit sequences (carries by look-ahead).
AddBits(a, b) ==
  LET n == IF Len(a) > Len(b) THEN Len(a) ELSE Len(b)
      pa == Zeros(n - Len(a)) \o a
      pb == Zeros(n - Len(b)) \o b
      carry(i) == \E j \in (i + 1)..n :
                    /\ pa[j] = 1 /\ pb[j] = 1
                    /\ \A k \in (i + 1)..(j - 1) : pa[k] + pb[k] >= 1
      bit(i) == IF i = 0 THEN (IF carry(0) THEN 1 ELSE 0)
                ELSE (pa[i] + pb[i] + (IF carry(i) THEN 1 ELSE 0)) % 2
  IN StripLead([i \in 1..(n + 1) |-> bit(i - 1)])

\* The exact product of a bit sequence and a natural number.
RECURSIVE MulBits(_, _)
MulBits(a, k) ==
  IF k = 0 THEN <<>>
  ELSE LET h == MulBits(a, k \div 2)
           dbl == IF h = <<>> THEN h ELSE Append(h, 0)
       IN IF k % 2 = 1 THEN AddBits(dbl, a) ELSE dbl

DNaN == [k |-> "NaN", m |-> <<>>, e |-> 0]
DInf == [k |-> "Infinity", m |-> <<>>, e |-> 0]
DZero == [k |-> "fin", m |-> <<>>, e |-> 0]

\* The value m * 2^e in canonical form (trailing zeros moved to the exponent).
Canon(m, e) ==
  IF Ones(m) = {} THEN DZero
  ELSE LET last == CHOOSE i \in Ones(m) : \A j \in Ones(m) : j <= i
       IN [k |-> "fin", m |-> SubSeq(m, 1, last), e |-> e + (Len(m) - last)]

\* Rounding of the exact value (b * 2^e, plus a non-zero tail below the last
\* bit when sticky = 1) to Prec significant bits, nearest, ties to even.
RoundBits(b, e, sticky) ==
  LET L == Len(b) IN
  IF L <= Prec THEN Canon(b, e)
  ELSE LET keep == SubSeq(b, 1, Prec)
           guard == b[Prec + 1]
           rest == \E i \in (Prec + 2)..L : b[i] = 1
           up == guard = 1 /\ (rest \/ sticky = 1 \/ keep[Prec] = 1)
       IN Canon(IF up THEN AddBits(keep, <<1>>) ELSE keep, e + (L - Prec))

\* The number with the value of a natural number (exact below 2^53).
DOfNat(n) == Canon(BitsOfNat(n), 0)

\* Long division of a list of 10-bit limbs by d, most significant limb first.
RECURSIVE DivLimbs(_, _, _, _)
DivLimbs(limbs, d, r, q) ==
  IF limbs = <<>> THEN [q |-> q, r |-> r]
  ELSE LET cur == r * 1024 + Head(limbs)
       IN DivLimbs(Tail(limbs), d, cur % d, Append(q, cur \div d))

\* The quotient bits of (m * 2^shift) / d, with enough bits below the point to
\* round at Prec bits, and whether a remainder is left.
LongDiv(m, d) ==
  LET s == Prec + 2 + BitLen(d)
      n == Len(m) + s
      pad == (10 - (n % 10)) % 10
      num == Zeros(pad) \o m \o Zeros(s)
      nl == Len(num) \div 10
      limbs == [j \in 1..nl |-> NatOfBits(SubSeq(num, (j - 1) * 10 + 1, j * 10))]
      res == DivLimbs(limbs, d, 0, <<>>)
      qbits == [i \in 1..Len(num) |->
                 (res.q[(i - 1) \div 10 + 1] \div Pow2(9 - ((i - 1) % 10))) % 2]
  IN [q |-> StripLead(qbits), shift |-> s, sticky |-> IF res.r = 0 THEN 0 ELSE 1]

\* a / d for a number a and a natural number d: 0/0 is NaN, x/0 is Infinity.
DDivNat(a, d) ==
  IF a.k = "NaN" THEN DNaN
  ELSE IF a.k = "Infinity" THEN DInf
  ELSE IF d = 0 THEN (IF a.m = <<>> THEN DNaN ELSE DInf)
  ELSE LET r == LongDiv(a.m, d)
       IN RoundBits(r.q, a.e - r.shift, r.sticky)

\* a * n for a number a and a natural number n.
DMulNat(a, n) ==
  IF a.k = "NaN" THEN DNaN
  ELSE IF a.k = "Infinity" THEN (IF n = 0 THEN DNaN ELSE DInf)
  ELSE RoundBits(MulBits(a.m, n), a.e, 0)

\* a + b.
DAdd(a, b) ==
  IF a.k = "NaN" \/ b.k = "NaN" THEN DNaN
  ELSE IF a.k = "Infinity" \/ b.k = "Infinity" THEN DInf
  ELSE IF a.m = <<>> THEN b
  ELSE IF b.m = <<>> THEN a
  ELSE LET e == IF a.e < b.e THEN a.e ELSE b.e
       IN RoundBits(AddBits(a.m \o Zeros(a.e - e), b.m \o Zeros(b.e - e)), e, 0)

\* Math.round of a finite number: the integer part, plus one when the
\* fraction is at least one half.
MathRound(a) ==
  LET L == Len(a.m)
      f == 0 - a.e
  IN IF a.e >= 0 THEN NatOfBits(a.m \o Zeros(a.e))
     ELSE (IF L > f THEN NatOfBits(SubSeq(a.m, 1, L - f)) ELSE 0)
          + (IF f <= L THEN a.m[L - f + 1] ELSE 0)

\* The number literal 0.75 = 3 * 2^-2.
ThreeQuarters == Canon(<<1, 1>>, -2)

(***************************************************************************)
(* Attendance statistics (src/lib/attendanceUtils.ts)                      *)
(***************************************************************************)

\* The for loop of calculateAttendanceStats over the records still to visit.
RECURSIVE CountStatuses(_, _)
CountStatuses(recs, acc) ==
  IF recs = <<>> THEN acc
  ELSE LET st == normalizeAttendanceStatus(Head(recs).status)
       IN CountStatuses(Tail(recs),
            IF st = "null" THEN acc
            ELSE [total |-> acc.total + 1,
                  present |-> acc.present + (IF st = "present" THEN 1 ELSE 0),
                  late |-> acc.late + (IF st = "late" THEN 1 ELSE 0),
                  absent |-> acc.absent + (IF st = "absent" THEN 1 ELSE 0)])

\* weightedScore = present * 1 + late * 0.75 + absent * 0
weightedScore(st) ==
  DAdd(DAdd(DMulNat(DOfNat(1), st.present), DMulNat(ThreeQuarters, st.late)),
       DMulNat(DZero, st.absent))

\* calculateAttendanceStats(records)
calculateAttendanceStats(recs) ==
  LET st == CountStatuses(recs, [total |-> 0, present |-> 0, late |-> 0, absent |-> 0])
  IN IF recs = <<>> \/ st.total = 0
     THEN [total |-> st.total, present |-> st.present, late |-> st.late,
           absent |-> st.absent, percentage |-> 0, rate |-> 0]
     ELSE LET percentage == MathRound(DMulNat(DDivNat(weightedScore(st), st.total), 100))
          IN [total |-> st.total, present |-> st.present, late |-> st.late,
              absent |-> st.absent, percentage |-> percentage, rate |-> percentage]

(***************************************************************************)
(* JSON.parse, for texts without escapes, signs, fractions and exponents.  *)
(* A parse step returns [ok, v, i]: whether a value was read, the value,   *)
(* and the index after it.                                                 *)
(***************************************************************************)

JsonWhiteSpace == {" ", "\t", "\n", "\r"}

JsonFail == [ok |-> FALSE, v |-> JSNull, i |-> 0]

JsonOk(v, i) == [ok |-> TRUE, v |-> v, i |-> i]

\* The first index from i on that holds no white space (Len(s) + 1 if none).
SkipWs(s, i) ==
  LET solid == {j \in i..Len(s) : s[j] \notin JsonWhiteSpace}
  IN IF solid = {} THEN Len(s) + 1 ELSE CHOOSE j \in solid : \A k \in solid : j <= k

IsDigit(c) == \E k \in 1..Len(Digits) : SubSeq(Digits, k, k) = c

DigitValue(c) == (CHOOSE k \in 1..Len(Digits) : SubSeq(Digits, k, k) = c) - 1

RECURSIVE NatOfDigits(_)
NatOfDigits(cs) ==
  IF cs = <<>> THEN 0
  ELSE 10 * NatOfDigits(SubSeq(cs, 1, Len(cs) - 1)) + DigitValue(cs[Len(cs)])

\* A string token at s[i] = '"': up to the next quote; a raw control
\* character inside it is a syntax error.
ParseString(s, i) ==
  LET quotes == {j \in (i + 1)..Len(s) : s[j] = "\""}
  IN IF quotes = {} THEN JsonFail
     ELSE LET j == CHOOSE j \in quotes : \A k \in quotes : j <= k
              body == SubSeq(s, i + 1, j - 1)
          IN IF \E k \in 1..Len(body) : body[k] \in {"\t", "\n", "\r", "\\"}
             THEN JsonFail
             ELSE JsonOk(JSString(body), j + 1)

\* A number token at s[i], a digit: the run of digits; a leading zero ends
\* the number.
ParseNumber(s, i) ==
  LET stops == {j \in i..Len(s) : ~IsDigit(s[j])}
      j == IF stops = {} THEN Len(s) + 1 ELSE CHOOSE j \in stops : \A k \in stops : j <= k
  IN IF s[i] = "0" THEN JsonOk(JSNumber(0), i + 1)
     ELSE JsonOk(JSNumber(NatOfDigits(SubSeq(s, i, j - 1))), j)

StartsWith(s, i, w) == i + Len(w) - 1 <= Len(s) /\ SubSeq(s, i, i + Len(w) - 1) = Chars(w)

RECURSIVE ParseValue(_, _)
RECURSIVE ParseElements(_, _, _)
RECURSIVE ParseMembers(_, _)

\* The elements of an array from index i on, up to and with the closing ].
ParseElements(s, i, acc) ==
  LET r == ParseValue(s, i)
      j == SkipWs(s, r.i)
  IN IF ~r.ok \/ j > Len(s) THEN JsonFail
     ELSE IF s[j] = "," THEN ParseElements(s, j + 1, Append(acc, r.v))
     ELSE IF s[j] = "]" THEN JsonOk(JSArray(Append(acc, r.v)), j + 1)
     ELSE JsonFail

\* The members of an object from index i on, up to and with the closing }.
ParseMembers(s, i) ==
  LET k == SkipWs(s, i)
      key == IF k <= Len(s) /\ s[k] = "\"" THEN ParseString(s, k) ELSE JsonFail
      c == SkipWs(s, key.i)
      r == IF key.ok /\ c <= Len(s) /\ s[c] = ":" THEN ParseValue(s, c + 1) ELSE JsonFail
      j == SkipWs(s, r.i)
  IN IF ~r.ok \/ j > Len(s) THEN JsonFail
     ELSE IF s[j] = "," THEN ParseMembers(s, j + 1)
     ELSE IF s[j] = "}" THEN JsonOk(JSObject, j + 1)
     ELSE JsonFail

\* One JSON value from index i on, leading white space skipped.
ParseValue(s, i) ==
  LET j == SkipWs(s, i) IN
  IF j > Len(s) THEN JsonFail
  ELSE IF s[j] = "\"" THEN ParseString(s, j)
  ELSE IF IsDigit(s[j]) THEN ParseNumber(s, j)
  ELSE IF StartsWith(s, j, "true") THEN JsonOk(JSBoolean(TRUE), j + 4)
  ELSE IF StartsWith(s, j, "false") THEN JsonOk(JSBoolean(FALSE), j + 5)
  ELSE IF StartsWith(s, j, "null") THEN JsonOk(JSNull, j + 4)
  ELSE IF s[j] = "["
       THEN LET k == SkipWs(s, j + 1)
            IN IF k <= Len(s) /\ s[k] = "]" THEN JsonOk(JSArray(<<>>), k + 1)
               ELSE ParseElements(s, j + 1, <<>>)
  ELSE IF s[j] = "{"
       THEN LET k == SkipWs(s, j + 1)
            IN IF k <= Len(s) /\ s[k] = "}" THEN JsonOk(JSObject, k + 1)
               ELSE ParseMembers(s, j + 1)
  ELSE JsonFail

\* JSON.parse(text): [ok |-> FALSE] stands for the SyntaxError it throws.
JsonParse(s) ==
  LET r == ParseValue(s, 1)
  IN IF r.ok /\ SkipWs(s, r.i) = Len(s) + 1 THEN r ELSE JsonFail

(***************************************************************************)
(* Roster id normalizer (src/lib/rosterUtils.ts)                           *)
(***************************************************************************)

\* String.prototype.split(sep) for a one-character separator.
RECURSIVE Split(_, _)
Split(s, sep) ==
  LET at == {i \in 1..Len(s) : s[i] = sep}
  IN IF at = {} THEN <<s>>
     ELSE LET i == CHOOSE i \in at : \A k \in at : i <= k
          IN <<SubSeq(s, 1, i - 1)>> \o Split(SubSeq(s, i + 1, Len(s)), sep)

\* A class that leaves the braces out.
NoiseCharsNoBraces == {"[", "]", "\""}

\* The characters of the class [\[\]\{\}"] of the fallback parser.
NoiseChars == {"[", "]", "{", "}", "\""}

IsNoise(c) == c \in NoiseChars

\* value.replace(/[\[\]\{\}"]/g, '')
RemoveNoise(s) == SelectSeq(s, LAMBDA c : ~IsNoise(c))

NonEmpty(s) == Len(s) > 0

\* .map((value) => `${value}`.trim()).filter((value) => value.length > 0)
TrimmedNonEmpty(vs) ==
  SelectSeq([i \in 1..Len(vs) |-> trim(TemplateString(vs[i]))], NonEmpty)

\* The outcome of a call: the returned list, or an exception left uncaught.
Returned(ids) == [threw |-> FALSE, ids |-> ids]
Thrown == [threw |-> TRUE, ids |-> <<>>]

\* trimmed.split(',').map(...replace...trim()).filter(...)
DelimiterParse(trimmed) ==
  LET pieces == Split(trimmed, ",")
  IN SelectSeq([i \in 1..Len(pieces) |-> trim(RemoveNoise(pieces[i]))], NonEmpty)

\* normalizeStudentIds(input)
normalizeStudentIds(input) ==
  IF input.t = "array" THEN Returned(TrimmedNonEmpty(input.items))
  ELSE IF input.t = "string"
  THEN LET trimmed == trim(input.s)
           parsed == JsonParse(trimmed)
       IN IF trimmed = <<>> THEN Returned(<<>>)
          ELSE IF parsed.ok /\ parsed.v.t = "array"
          THEN Returned(TrimmedNonEmpty(parsed.v.items))
          ELSE Returned(DelimiterParse(trimmed))
  ELSE Returned(<<>>)

(***************************************************************************)
(* Backend tables and the roster reconciliation of the teacher pages.      *)
(* An id is a string; the absent id (undefined or '') is the empty string. *)
(* A student profile is identified by its id: a list of Student objects is *)
(* written as the list of their ids.                                       *)
(***************************************************************************)

\* Array.prototype.includes
Includes(list, x) == \E i \in 1..Len(list) : list[i] = x

\* Array.from(new Set(list)): the first occurrence of every element, in order.
Unique(list) ==
  LET first == {i \in 1..Len(list) : \A j \in 1..(i - 1) : list[j] # list[i]}
      RECURSIVE pick(_)
      pick(i) == IF i > Len(list) THEN <<>>
                 ELSE (IF i \in first THEN <<list[i]>> ELSE <<>>) \o pick(i + 1)
  IN pick(1)

\* Array.prototype.flat of a list of lists.
RECURSIVE Flat(_)
Flat(lists) == IF lists = <<>> THEN <<>> ELSE Head(lists) \o Flat(Tail(lists))

\* getStudents(): every row of the students table.
getStudents == studentTable

\* getStudentsByIds(ids): the rows whose id is one of ids.
getStudentsByIds(ids) ==
  IF ids = <<>> THEN <<>> ELSE SelectSeq(studentTable, LAMBDA id : Includes(ids, id))

\* getGradesByCourseIds(courseIds): the grades of these courses.
getGradesByCourseIds(courseIds) ==
  IF courseIds = <<>> THEN <<>>
  ELSE SelectSeq(gradeTable, LAMBDA grade : Includes(courseIds, grade.courseId))

\* allCourses.map(course => ({...course, studentIds: normalizeStudentIds(course.studentIds)}))
normalizedCourses ==
  [i \in 1..Len(courseTable) |->
     [courseTable[i] EXCEPT !.studentIds = normalizeStudentIds(@).ids]]

\* rosterEntries, an object keyed by course id, as the list of its entries in
\* insertion order.
HasEntry(rosterEntries, courseId) ==
  \E i \in 1..Len(rosterEntries) : rosterEntries[i].courseId = courseId

\* teacherCourses.forEach(course => { rosterEntries[course.id] = [...course.studentIds] })
DeclaredEntries(courseList) ==
  [i \in 1..Len(courseList) |->
     [courseId |-> courseList[i].id, ids |-> courseList[i].studentIds]]

\* if (!rosterEntries[courseId]) rosterEntries[courseId] = [];
\* if (!rosterEntries[courseId].includes(studentId)) rosterEntries[courseId].push(studentId);
PushIfAbsent(rosterEntries, courseId, studentId) ==
  LET ensured == IF HasEntry(rosterEntries, courseId) THEN rosterEntries
                 ELSE Append(rosterEntries, [courseId |-> courseId, ids |-> <<>>])
  IN [i \in 1..Len(ensured) |->
        IF ensured[i].courseId = courseId /\ ~Includes(ensured[i].ids, studentId)
        THEN [ensured[i] EXCEPT !.ids = Append(@, studentId)]
        ELSE ensured[i]]

\* The ids of every entry, once each, empty ids left out (rosterStudentIds).
rosterStudentIds(rosterEntries) ==
  Unique(SelectSeq(Flat([i \in 1..Len(rosterEntries) |-> rosterEntries[i].ids]), NonEmpty))

\* The profiles the page works with: those of getStudents, and those fetched
\* by id for the roster ids that getStudents did not return.
combinedStudents(ids) ==
  LET initialStudents == getStudents
      missingStudentIds == SelectSeq(ids, LAMBDA id : ~Includes(initialStudents, id))
  IN initialStudents \o getStudentsByIds(missingStudentIds)

\* The requests that go with it: one getStudentsByIds call with the missing
\* ids, none when no id is missing.
BatchRequests(ids) ==
  LET missingStudentIds == SelectSeq(ids, LAMBDA id : ~Includes(getStudents, id))
  IN IF missingStudentIds = <<>> THEN <<>>
     ELSE <<[call |-> "getStudentsByIds", ids |-> missingStudentIds]>>

\* No request sent yet.
NoRequests == [page \in {"TeacherAttendance", "TeacherGrades", "TeacherStudents"} |-> <<>>]

\* rosterMap of TeacherAttendance and TeacherGrades: per course, the ids once
\* each, empty ids left out, and the profile of each id that has one.
rosterMap(rosterEntries) ==
  LET lookup == Unique(combinedStudents(rosterStudentIds(rosterEntries)))
  IN [i \in 1..Len(rosterEntries) |->
        [courseId |-> rosterEntries[i].courseId,
         students |-> SelectSeq(Unique(SelectSeq(rosterEntries[i].ids, NonEmpty)),
                                LAMBDA id : Includes(lookup, id))]]

\* Array.from(new Map(Object.values(rosterMap).flat().map(s => [s.id, s])).values())
teacherStudentsOf(rosters) ==
  Unique(Flat([i \in 1..Len(rosters) |-> rosters[i].students]))

\* The state of TeacherAttendance before its load.
PageInit == [courses |-> <<>>, courseRosters |-> <<>>, students |-> <<>>,
             records |-> <<>>, loading |-> TRUE]

\* The state its load leaves when there is no user or the teacher has no course.
PageEmpty == [PageInit EXCEPT !.loading = FALSE]

\* The same two states of TeacherGrades.
GradesPageInit == [courses |-> <<>>, courseRosters |-> <<>>, students |-> <<>>,
                   grades |-> <<>>, loading |-> TRUE, studentNameCache |-> <<>>]

GradesPageEmpty == [GradesPageInit EXCEPT !.loading = FALSE]

(***************************************************************************)
(* TeacherAttendance (src/pages/TeacherAttendance.tsx)                     *)
(***************************************************************************)

\* relevantRecords: the records of the teacher's courses, by id when the
\* record carries one, by name otherwise.
relevantRecords(teacherCourses) ==
  SelectSeq(attendanceTable,
    LAMBDA record :
      IF record.courseId # <<>>
      THEN \E i \in 1..Len(teacherCourses) : teacherCourses[i].id = record.courseId
      ELSE \E i \in 1..Len(teacherCourses) : teacherCourses[i].name = record.courseName)

\* teacherCourses.find(course => course.name === courseName)?.id
CourseIdByName(teacherCourses, courseName) ==
  LET hits == {i \in 1..Len(teacherCourses) : teacherCourses[i].name = courseName}
  IN IF hits = {} THEN <<>>
     ELSE teacherCourses[CHOOSE i \in hits : \A j \in hits : i <= j].id

\* relevantRecords.forEach(record => ...) over the records still to visit.
RECURSIVE AttendanceEntries(_, _, _)
AttendanceEntries(recs, teacherCourses, rosterEntries) ==
  IF recs = <<>> THEN rosterEntries
  ELSE LET record == Head(recs)
           courseIdFromRecord ==
             IF record.courseId # <<>> /\ HasEntry(rosterEntries, record.courseId)
             THEN record.courseId
             ELSE CourseIdByName(teacherCourses, record.courseName)
       IN AttendanceEntries(Tail(recs), teacherCourses,
            IF courseIdFromRecord = <<>> THEN rosterEntries
            ELSE PushIfAbsent(rosterEntries, courseIdFromRecord, record.studentId))

\* normalizedCourses.filter(course => course.teacherId === user.id)
ownedCourses(courses) == SelectSeq(courses, LAMBDA course : course.teacherId = user.id)

\* courses.map(course => course.id)
CourseIds(courses) == [i \in 1..Len(courses) |-> courses[i].id]

\* The state loadAttendanceData sets from teacherCourses, relevantRecords and
\* rosterMap.
AttendancePage(teacherCourses, relevant, rosters) ==
  IF user.id = <<>> \/ teacherCourses = <<>> THEN PageEmpty
  ELSE [courses |-> teacherCourses, courseRosters |-> rosters,
        students |-> teacherStudentsOf(rosters), records |-> relevant,
        loading |-> FALSE]

\* loadAttendanceData from the roster reconciliation on.
AttendanceReconciled(teacherCourses, relevant) ==
  AttendancePage(teacherCourses, relevant,
    rosterMap(AttendanceEntries(relevant, teacherCourses, DeclaredEntries(teacherCourses))))

\* The state loadAttendanceData leaves.
AttendanceLoaded ==
  LET from(teacherCourses) == AttendanceReconciled(teacherCourses, relevantRecords(teacherCourses))
  IN from(ownedCourses(normalizedCourses))

(***************************************************************************)
(* TeacherGrades                                                           *)
(***************************************************************************)

\* TeacherGrades.forEach(grade => ...) over the grades still to visit.
RECURSIVE GradeEntries(_, _)
GradeEntries(grades, rosterEntries) ==
  IF grades = <<>> THEN rosterEntries
  ELSE GradeEntries(Tail(grades),
         IF Head(grades).courseId = <<>> THEN rosterEntries
         ELSE PushIfAbsent(rosterEntries, Head(grades).courseId, Head(grades).studentId))

\* The state loadGradeData sets from teacherCourses, teacherGrades and
\* rosterMap.
GradesPage(teacherCourses, teacherGrades, rosters) ==
  IF user.id = <<>> \/ teacherCourses = <<>> THEN GradesPageEmpty
  ELSE [courses |-> teacherCourses, courseRosters |-> rosters,
        students |-> teacherStudentsOf(rosters), grades |-> teacherGrades,
        loading |-> FALSE, studentNameCache |-> TeacherGrades.studentNameCache]

\* loadGradeData from the roster reconciliation on.
GradesReconciled(teacherCourses, teacherGrades) ==
  GradesPage(teacherCourses, teacherGrades,
    rosterMap(GradeEntries(teacherGrades, DeclaredEntries(teacherCourses))))

\* The state loadGradeData leaves.
GradesLoaded ==
  LET from(teacherCourses) ==
        GradesReconciled(teacherCourses, getGradesByCourseIds(CourseIds(teacherCourses)))
  IN from(ownedCourses(normalizedCourses))

\* TeacherGrades, the effect on [existingGrades, studentsLookup,
\* studentNameCache]: the students of the latest ten grades of the page's
\* courses that are neither in students nor in the name cache.
missing ==
  LET mine == SelectSeq(TeacherGrades.grades,
                LAMBDA grade : Includes(CourseIds(TeacherGrades.courses), grade.courseId))
      latest == [i \in 1..Len(mine) |-> mine[Len(mine) + 1 - i]]
      existingGrades == SubSeq(latest, 1, IF Len(latest) < 10 THEN Len(latest) ELSE 10)
  IN Unique(SelectSeq([i \in 1..Len(existingGrades) |-> existingGrades[i].studentId],
                      LAMBDA id : /\ ~Includes(TeacherGrades.students, id)
                                  /\ ~Includes(TeacherGrades.studentNameCache, id)))

(***************************************************************************)
(* TeacherStudents                                                         *)
(***************************************************************************)

\* The value 'all' of selectedCourseId.
AllCourses == <<"a", "l", "l">>

\* null, where a number is expected.
DNull == [k |-> "null", m |-> <<>>, e |-> 0]

\* The state of TeacherStudents before its load.
StudentsPageInit ==
  [courses |-> <<>>, courseRosters |-> <<>>, students |-> <<>>,
   courseAverages |-> <<>>, selectedCourseId |-> AllCourses, loading |-> TRUE]

\* percent = grade.maxScore ? (grade.score / grade.maxScore) * 100 : grade.score
GradePercent(grade) ==
  IF grade.maxScore # 0
  THEN DMulNat(DDivNat(DOfNat(grade.score), grade.maxScore), 100)
  ELSE DOfNat(grade.score)

\* The rosterEntries part of TeacherGrades.forEach(grade => ...).
RECURSIVE StudentsEntries(_, _)
StudentsEntries(grades, rosterEntries) ==
  IF grades = <<>> THEN rosterEntries
  ELSE StudentsEntries(Tail(grades),
         IF Head(grades).courseId = <<>> \/ Head(grades).studentId = <<>> THEN rosterEntries
         ELSE PushIfAbsent(rosterEntries, Head(grades).courseId, Head(grades).studentId))

\* The gradeTotals part of the same loop: one {sum, count} per student and
\* course, in order of first appearance.
RECURSIVE GradeTotals(_, _)
GradeTotals(grades, gradeTotals) ==
  IF grades = <<>> THEN gradeTotals
  ELSE LET grade == Head(grades)
           here(t) == t.studentId = grade.studentId /\ t.courseId = grade.courseId
           ensured == IF \E i \in 1..Len(gradeTotals) : here(gradeTotals[i]) THEN gradeTotals
                      ELSE Append(gradeTotals, [studentId |-> grade.studentId,
                                                courseId |-> grade.courseId,
                                                sum |-> DZero, count |-> 0])
       IN GradeTotals(Tail(grades),
            IF grade.courseId = <<>> \/ grade.studentId = <<>> THEN gradeTotals
            ELSE [i \in 1..Len(ensured) |->
                    IF here(ensured[i])
                    THEN [ensured[i] EXCEPT !.sum = DAdd(@, GradePercent(grade)),
                                            !.count = @ + 1]
                    ELSE ensured[i]])

\* averages[studentId][courseId] = stats.count > 0 ? stats.sum / stats.count : 0
Averages(gradeTotals) ==
  [i \in 1..Len(gradeTotals) |->
     [studentId |-> gradeTotals[i].studentId, courseId |-> gradeTotals[i].courseId,
      value |-> IF gradeTotals[i].count > 0
                THEN DDivNat(gradeTotals[i].sum, gradeTotals[i].count)
                ELSE DZero]]

\* rosterStudentMap of the teacher branch: the profile of each id that has
\* one, id by id.
rosterStudentMap(rosterEntries) ==
  LET allowedIds == Unique(Flat([i \in 1..Len(rosterEntries) |-> rosterEntries[i].ids]))
      studentLookup == combinedStudents(allowedIds)
  IN [i \in 1..Len(rosterEntries) |->
        [courseId |-> rosterEntries[i].courseId,
         students |-> SelectSeq(rosterEntries[i].ids,
                                LAMBDA id : Includes(studentLookup, id))]]

\* The effect on [courses, selectedCourseId]: a selection that is no course of
\* the page falls back to 'all'.
KeptSelection(courseList, selected) ==
  IF \E i \in 1..Len(courseList) : courseList[i].id = selected THEN selected ELSE AllCourses

\* The state the teacher branch of loadData sets.  rosterEntries[course.id]
\* is the studentIds array of the course object itself, so the ids pushed for
\* the grades show in the courses of the page.
StudentsPage(effectiveCourses, teacherGrades, rosterEntries, rosters) ==
  [courses |-> [i \in 1..Len(effectiveCourses) |->
                  [effectiveCourses[i] EXCEPT !.studentIds = rosterEntries[i].ids]],
   courseRosters |-> rosters,
   students |-> teacherStudentsOf(rosters),
   courseAverages |-> Averages(GradeTotals(teacherGrades, <<>>)),
   selectedCourseId |-> KeptSelection(effectiveCourses, TeacherStudents.selectedCourseId),
   loading |-> FALSE]

\* The teacher branch from the grades loop on.
StudentsReconciled(effectiveCourses, teacherGrades) ==
  LET from(rosterEntries) ==
        StudentsPage(effectiveCourses, teacherGrades, rosterEntries,
                     rosterStudentMap(rosterEntries))
  IN from(StudentsEntries(teacherGrades, DeclaredEntries(effectiveCourses)))

\* The teacher branch of loadData.
StudentsOfTeacher(courses) ==
  LET withGrades(effectiveCourses) ==
        StudentsReconciled(effectiveCourses, getGradesByCourseIds(CourseIds(effectiveCourses)))
      effective(owned) == withGrades(IF owned # <<>> THEN owned ELSE courses)
  IN effective(ownedCourses(courses))

\* The other branch: every course, its roster the profiles of its declared
\* ids, no average.
StudentsOfOthers(courses) ==
  [courses |-> courses,
   courseRosters |-> [i \in 1..Len(courses) |->
                        [courseId |-> courses[i].id,
                         students |-> SelectSeq(courses[i].studentIds,
                                                LAMBDA id : Includes(getStudents, id))]],
   students |-> getStudents,
   courseAverages |-> <<>>,
   selectedCourseId |-> KeptSelection(courses, TeacherStudents.selectedCourseId),
   loading |-> FALSE]

\* The state loadData leaves.
StudentsLoaded ==
  IF user.id = <<>>
  THEN [StudentsPageInit EXCEPT !.loading = FALSE]
  ELSE IF user.role = "teacher" THEN StudentsOfTeacher(normalizedCourses)
  ELSE StudentsOfOthers(normalizedCourses)

\* The profile requests of loadAttendanceData.
AttendanceRequests ==
  LET from(teacherCourses) ==
        IF user.id = <<>> \/ teacherCourses = <<>> THEN <<>>
        ELSE BatchRequests(rosterStudentIds(
               AttendanceEntries(relevantRecords(teacherCourses), teacherCourses,
                                 DeclaredEntries(teacherCourses))))
  IN from(ownedCourses(normalizedCourses))

\* The profile requests of loadGradeData.
GradesRequests ==
  LET from(teacherCourses) ==
        IF user.id = <<>> \/ teacherCourses = <<>> THEN <<>>
        ELSE BatchRequests(rosterStudentIds(
               GradeEntries(getGradesByCourseIds(CourseIds(teacherCourses)),
                            DeclaredEntries(teacherCourses))))
  IN from(ownedCourses(normalizedCourses))

\* The profile requests of loadData: those of allowedIds in the teacher
\* branch, none in the other.
AllowedRequests(rosterEntries) ==
  BatchRequests(Unique(Flat([i \in 1..Len(rosterEntries) |-> rosterEntries[i].ids])))

StudentsRequests(courses) ==
  LET withGrades(effectiveCourses) ==
        AllowedRequests(StudentsEntries(getGradesByCourseIds(CourseIds(effectiveCourses)),
                                        DeclaredEntries(effectiveCourses)))
      effective(owned) == withGrades(IF owned # <<>> THEN owned ELSE courses)
  IN IF user.id = <<>> \/ user.role # "teacher" THEN <<>>
     ELSE effective(ownedCourses(courses))

\* values.reduce((sum, value) => sum + value, 0)
RECURSIVE SumValues(_, _)
SumValues(values, sum) ==
  IF values = <<>> THEN sum ELSE SumValues(Tail(values), DAdd(sum, Head(values).value))

\* getCumulativeGrade(studentId)
getCumulativeGrade(studentId) ==
  LET courseGrades == SelectSeq(TeacherStudents.courseAverages,
                                LAMBDA a : a.studentId = studentId)
      target == SelectSeq(courseGrades,
                          LAMBDA a : a.courseId = TeacherStudents.selectedCourseId)
  IN IF courseGrades = <<>> THEN DNull
     ELSE IF TeacherStudents.selectedCourseId # AllCourses /\ target # <<>>
     THEN target[1].value
     ELSE DDivNat(SumValues(courseGrades, DZero), Len(courseGrades))

(***************************************************************************)
(* Grade and fee views: AdminClasses, StudentResults, Performance,         *)
(* StudentFinance.                                                         *)
(***************************************************************************)

\* getAllGrades(): every grade, latest first.
getAllGrades == [i \in 1..Len(gradeTable) |-> gradeTable[Len(gradeTable) + 1 - i]]

\* getGradesByStudent(studentId): the student's grades in date order.
getGradesByStudent(studentId) ==
  SelectSeq(gradeTable, LAMBDA grade : grade.studentId = studentId)

\* getAttendanceByStudent(studentId)
getAttendanceByStudent(studentId) ==
  SelectSeq(attendanceTable, LAMBDA record : record.studentId = studentId)

\* getFinanceForStudent(studentId): the student's finance row, or none
\* (null), as a list of at most one row.
getFinanceForStudent(studentId) ==
  LET rows == SelectSeq(financeTable, LAMBDA f : f.studentId = studentId)
  IN IF rows = <<>> THEN <<>> ELSE <<rows[1]>>

\* The key `${grade.studentId}|${grade.courseId}` of a bucket.
AggregateKey(grade) == grade.studentId \o <<"|">> \o grade.courseId

\* normalizedGrades.forEach(grade => ...): the buckets of the Map aggregate in
\* insertion order.
RECURSIVE Aggregate(_, _)
Aggregate(grades, aggregate) ==
  IF grades = <<>> THEN aggregate
  ELSE LET key == AggregateKey(Head(grades))
           ensured == IF \E i \in 1..Len(aggregate) : aggregate[i].key = key THEN aggregate
                      ELSE Append(aggregate, [key |-> key, total |-> 0, max |-> 0])
       IN Aggregate(Tail(grades),
            [i \in 1..Len(ensured) |->
               IF ensured[i].key = key
               THEN [ensured[i] EXCEPT !.total = @ + Head(grades).score,
                                       !.max = @ + Head(grades).maxScore]
               ELSE ensured[i]])

\* cumulative = bucket.max ? Math.round((bucket.total / bucket.max) * 100) : 0
Cumulative(bucket) ==
  IF bucket.max # 0
  THEN MathRound(DMulNat(DDivNat(DOfNat(bucket.total), bucket.max), 100))
  ELSE 0

\* const [studentId, courseId] = key.split('|')
PieceOf(key, n) ==
  LET pieces == Split(key, "|")
  IN IF n <= Len(pieces) THEN pieces[n] ELSE <<>>

\* compiled: one row per bucket; student and course are the profiles (or the
\* fallbacks) with the ids split from the key.
Compiled(aggregate) ==
  [i \in 1..Len(aggregate) |->
     [id |-> aggregate[i].key,
      student |-> PieceOf(aggregate[i].key, 1),
      course |-> PieceOf(aggregate[i].key, 2),
      cumulative |-> Cumulative(aggregate[i])]]

\* grades.reduce((sum, grade) => sum + (grade.score / grade.maxScore) * 100, 0)
RECURSIVE TotalPercent(_, _)
TotalPercent(grades, sum) ==
  IF grades = <<>> THEN sum
  ELSE TotalPercent(Tail(grades),
         DAdd(sum, DMulNat(DDivNat(DOfNat(Head(grades).score), Head(grades).maxScore), 100)))

\* StudentResults: averageScore
averageScore ==
  IF StudentResults.grades = <<>> THEN DZero
  ELSE DDivNat(TotalPercent(StudentResults.grades, DZero), Len(StudentResults.grades))

\* StudentResults: percentage = (grade.score / grade.maxScore) * 100 of a row.
percentage(grade) == DMulNat(DDivNat(DOfNat(grade.score), grade.maxScore), 100)

\* Number.prototype.toFixed(1) of a non-negative number: the tenths nearest to
\* the number (the larger when two are as near), or NaN, or Infinity.
toFixed1(a) ==
  IF a.k = "NaN" THEN Chars("NaN")
  ELSE IF a.k = "Infinity" THEN Chars("Infinity")
  ELSE LET tenths == MathRound([k |-> "fin", m |-> MulBits(a.m, 10), e |-> a.e])
       IN NatToString(tenths \div 10) \o <<".">> \o NatToString(tenths % 10)

\* Performance: calculateAverageGrade(), the number 0 or a text.
calculateAverageGrade ==
  IF Performance.childGrades = <<>> THEN JSNumber(0)
  ELSE JSString(toFixed1(DDivNat(TotalPercent(Performance.childGrades, DZero),
                                 Len(Performance.childGrades))))

\* StudentFinance: paidPercentage = finance ? (finance.paid / finance.totalFee) * 100 : 0
paidPercentage ==
  IF StudentFinance.finance = <<>> THEN DZero
  ELSE DMulNat(DDivNat(DOfNat(StudentFinance.finance[1].paid),
                       StudentFinance.finance[1].totalFee), 100)

------------------------------------------------------------------------------
(***************************************************************************)
(* Specification SpecStatus: one call of normalizeAttendanceStatus on a    *)
(* raw value drawn from StatusInputs.                                      *)
(***************************************************************************)

\* Words given to the normalizer: every synonym of the table, the empty string
\* and strings that are no synonym.
StatusWords ==
  {"present", "attended", "on-time", "ontime", "p", "1", "true",
   "late", "tardy", "l", "absent", "missed", "excused", "a", "0", "false",
   "", "unknown", "constructor", "__proto__", "toString", "valueOf", "2", "yes", "presen"}

Capitalize(cs) == IF cs = <<>> THEN cs ELSE toUpperCase(<<Head(cs)>>) \o Tail(cs)

\* Each word in lower case, in upper case and capitalised, bare and padded.
StatusStrings ==
  {pre \o cased \o post :
     pre \in {<<>>, <<" ">>, <<"\t", " ">>},
     post \in {<<>>, <<" ">>, <<"\n">>},
     cased \in UNION {{Chars(w), toUpperCase(Chars(w)), Capitalize(Chars(w))}
                      : w \in StatusWords}}

StatusInputs ==
  {JSNull, JSUndefined, JSBoolean(TRUE), JSBoolean(FALSE)}
    \cup {JSNumber(k) : k \in 0..2}
    \cup {JSString(cs) : cs \in StatusStrings}

StatusIdle == status = JSNull /\ normalized = "pending"
\* No task of the auth provider has started; the provider is mounted with no
\* user and loading.
NoTask == [pc |-> "idle", email |-> <<>>, role |-> "", profile |-> <<>>,
           returned |-> <<>>, result |-> "none", seen |-> <<>>]

AuthCallers == {"bootstrapSession", "onAuthStateChange", "login", "register"}

AuthIdle ==
  /\ authUser = <<>> /\ authLoading = TRUE
  /\ session = <<>> /\ usersTable = <<>>
  /\ authTasks = [c \in AuthCallers |-> NoTask]
  /\ uuids = 0

\* The pages whose loaders are followed step by step, and a page before its
\* effect has run: useState(true) for loading, nothing shown.
LoaderPages == {"TeacherLessons", "Attendance", "TeacherAttendance", "TeacherGrades",
                "StudentDashboard", "AdminDashboard", "AdminFinance"}

Unmounted == [phase |-> "unmounted", loading |-> TRUE, shown |-> "empty", refreshes |-> 0]

LoadersIdle == loaders = [page \in LoaderPages |-> Unmounted]

AsyncIdle ==
  /\ clients = <<>>
  /\ fetches = <<>>
  /\ AdminUsers = [users |-> <<>>]
  /\ toasts = <<>>
  /\ storeTasks = <<>>

PaymentsIdle == payments = [initial |-> <<>>, applied |-> <<>>, total |-> JSNumber(0)]

StatsIdle == records = <<>> /\ stats = <<>> /\ grouped = <<>>
IdsIdle == idsInput = JSNull /\ idsOutput = <<>>

BackendIdle ==
  /\ user = [id |-> <<>>, role |-> "none"]
  /\ courseTable = <<>> /\ studentTable = <<>>
  /\ attendanceTable = <<>> /\ gradeTable = <<>> /\ financeTable = <<>>

TeacherIdle ==
  /\ TeacherAttendance = PageInit
  /\ TeacherGrades = GradesPageInit
  /\ TeacherStudents = StudentsPageInit
  /\ profileRequests = NoRequests
  /\ pendingEffects = {}

\* The store after bootstrap() from empty tables, no write called yet.
EmptyStore == [finances |-> <<>>, lessons |-> <<>>, grades |-> <<>>, attendance |-> <<>>,
               users |-> <<>>, students |-> <<>>, courses |-> <<>>]

NoCall == [op |-> "none", answer |-> "none", result |-> "none", sent |-> <<>>,
           arg |-> <<>>, before |-> <<>>]

StoreIdle ==
  /\ store = EmptyStore
  /\ tables = EmptyStore
  /\ outcome = NoCall
  /\ writeCalls = 0

FinancePageIdle == AdminFinance = [rows |-> <<>>, loading |-> TRUE]

DashboardsIdle ==
  /\ studentProfiles = <<>>
  /\ StudentDashboard = [attendanceRate |-> 0, studentProfile |-> <<>>, loading |-> TRUE]
  /\ Children = [children |-> <<>>, attendanceByStudent |-> <<>>, loading |-> TRUE]
  /\ ParentDashboard = [children |-> <<>>, attendanceRates |-> <<>>, loading |-> TRUE]

AdminIdle ==
  /\ TeacherDashboard = [courses |-> <<>>, grades |-> <<>>, loading |-> TRUE]
  /\ AdminDashboard = [courses |-> <<>>, loading |-> TRUE]
  /\ AdminReports = [courses |-> <<>>, loading |-> TRUE]
  /\ AdminCourses = [courses |-> <<>>, deptFilter |-> "all"]
  /\ courseStudents = [courseId |-> <<>>, students |-> <<>>]

PagesIdle == FinancePageIdle /\ DashboardsIdle /\ AdminIdle

ViewsIdle ==
  /\ AdminClasses = [rows |-> <<>>, loading |-> TRUE]
  /\ StudentResults = [grades |-> <<>>, loading |-> TRUE]
  /\ Performance = [selectedChild |-> <<>>, childGrades |-> <<>>, childAttendance |-> <<>>]
  /\ StudentFinance = [finance |-> <<>>, loaded |-> FALSE]

InitStatus ==
  /\ PaymentsIdle
  /\ AsyncIdle
  /\ LoadersIdle
  /\ AuthIdle
  /\ status \in StatusInputs
  /\ normalized = "pending"
  /\ StatsIdle /\ IdsIdle /\ BackendIdle /\ TeacherIdle /\ ViewsIdle
  /\ StoreIdle /\ PagesIdle

Normalize ==
  /\ normalized = "pending"
  /\ normalized' = normalizeAttendanceStatus(status)
  /\ UNCHANGED <<varsPayments, varsAsync, varsLoaders, varsAuth, status, varsStats, varsIds, varsBackend, varsStore, varsPages, varsTeacher, varsViews>>

NextStatus == Normalize

SpecStatus == InitStatus /\ [][NextStatus]_vars

\* The reference mapping of the synonym table.
RefStatus(raw) ==
  IF raw.t \in {"null", "undefined"} THEN "null"
  ELSE LET w == toLowerCase(trim(TemplateString(raw)))
       IN CASE w \in {Chars(x) : x \in {"present", "attended", "on-time", "ontime", "p", "1", "true"}}
                 -> "present"
            [] w \in {Chars(x) : x \in {"late", "tardy", "l"}} -> "late"
            [] w \in {Chars(x) : x \in {"absent", "missed", "excused", "a", "0", "false"}}
                 -> "absent"
            [] OTHER -> "null"

\* C4: the value returned by normalizeAttendanceStatus is the reference mapping
\* of its argument: the table's value for a synonym (after stringifying,
\* trimming and lower-casing), null for everything else.
C4_EqualsReference ==
  normalized # "pending" => normalized = RefStatus(status)

\* C5: the value returned by normalizeAttendanceStatus is one of 'present',
\* 'late', 'absent' or null, whatever the argument.
C5_ClosedCodomain ==
  normalized # "pending" => normalized \in {"present", "late", "absent", "null"}

------------------------------------------------------------------------------
(***************************************************************************)
(* Specification SpecStats: one call of calculateAttendanceStats on a list *)
(* of attendance records drawn from StatsInputs.                           *)
(***************************************************************************)

\* Longest list of records of recognised statuses.
MaxRecords == 10
\* Longest list of records of arbitrary statuses.
MaxMixed == 3

\* Raw statuses of the records: canonical values, a synonym with padding, and
\* values that are no synonym.
RecordStatuses ==
  {JSString(Chars(w)) : w \in {"present", "late", "absent", " P ", "unknown", "constructor"}}
    \cup {JSNull}

AttendanceRecordOf(raw) == [status |-> raw]

Repeat(x, n) == [i \in 1..n |-> x]

\* Lists of up to MaxRecords records: so many present, then late, then absent.
CanonicalLists ==
  {Repeat(AttendanceRecordOf(JSString(Chars("present"))), p)
     \o Repeat(AttendanceRecordOf(JSString(Chars("late"))), l)
     \o Repeat(AttendanceRecordOf(JSString(Chars("absent"))), a) :
       p \in 0..MaxRecords, l \in 0..MaxRecords, a \in 0..MaxRecords}

\* Every list of up to MaxMixed records over RecordStatuses.
MixedLists ==
  UNION {[1..n -> {AttendanceRecordOf(raw) : raw \in RecordStatuses}] : n \in 0..MaxMixed}

StatsInputs == {l \in CanonicalLists : Len(l) <= MaxRecords} \cup MixedLists

InitStats ==
  /\ PaymentsIdle
  /\ AsyncIdle
  /\ LoadersIdle
  /\ AuthIdle
  /\ records \in StatsInputs
  /\ stats = <<>>
  /\ grouped = <<>>
  /\ StatusIdle /\ IdsIdle /\ BackendIdle /\ TeacherIdle /\ ViewsIdle
  /\ StoreIdle /\ PagesIdle

Calculate ==
  /\ stats = <<>>
  /\ stats' = <<calculateAttendanceStats(records)>>
  /\ UNCHANGED <<varsPayments, varsAsync, varsLoaders, varsAuth, records, grouped, varsStatus, varsIds, varsBackend, varsStore, varsPages,
                 varsTeacher, varsViews>>

NextStats == Calculate

SpecStats == InitStats /\ [][NextStats]_vars

\* The number of records whose status normalizes to st.
CountOf(recs, st) ==
  Cardinality({i \in DOMAIN recs : normalizeAttendanceStatus(recs[i].status) = st})

\* The integer nearest to num / den (den > 0), a half rounded up.
RoundNearest(num, den) == (2 * num + den) \div (2 * den)

\* C2: with present, late and absent the numbers of records whose status
\* normalizes to that value and total their sum, the returned rate is
\* (100 * present + 75 * late) / total rounded to the nearest integer when
\* total > 0, and 0 when total = 0.
C2_RateFormula ==
  stats # <<>> =>
    LET p == CountOf(records, "present")
        l == CountOf(records, "late")
        a == CountOf(records, "absent")
        t == p + l + a
    IN stats[1].rate = IF t > 0 THEN RoundNearest(100 * p + 75 * l, t) ELSE 0

\* The rate formula of C2 on the lists that hold recognised statuses only.
RateFormulaOnRecognised ==
  (stats # <<>> /\ \A i \in DOMAIN records :
                     normalizeAttendanceStatus(records[i].status) \in {"present", "late", "absent"})
    => stats[1].rate = IF records = <<>> THEN 0
                       ELSE RoundNearest(100 * CountOf(records, "present")
                                           + 75 * CountOf(records, "late"), Len(records))

\* C3: the returned total is present + late + absent and is the number of
\* records whose status normalizes to present, late or absent: a record of any
\* other status is in none of the counts.
C3_SkipsUnrecognised ==
  stats # <<>> =>
    /\ stats[1].total = stats[1].present + stats[1].late + stats[1].absent
    /\ stats[1].total = CountOf(records, "present") + CountOf(records, "late")
                          + CountOf(records, "absent")

------------------------------------------------------------------------------
(***************************************************************************)
(* Specification SpecIds: one call of normalizeStudentIds on a value drawn *)
(* from IdsInputs.                                                         *)
(***************************************************************************)

\* Longest string of the exhaustive part of the inputs.
MaxIdChars == 4
\* Longest array given as input.
MaxIdArray == 3

\* Characters of the strings enumerated exhaustively.
IdAlphabet == {"[", "]", "{", "}", "\"", ",", " ", "a", "1"}

\* Longer texts: JSON arrays, delimited lists, wrapped and malformed input.
IdSamples ==
  {"[\"a\",\"b\",\"c\"]", "a,b,c", "[\"a\", \"b\"]extra", "  [\"a\",\"a\"] \n", "[\" a \",\"\"]",
   "[1,\"a\",null]", "[[\"a\",\"b\"],\"1\"]", "[{}]", "[{\"a\":1},true]", "{\"a\":1}", "{a,b}",
   "\"a,b\"", "null", "[a,b]", "[\"a\",]", "a, ,b,", "{\"a\",\"b\"}", "[01]", "[\"a\tb\"]",
   "\f[\"a,b\"]", "[\"a,b\"]\f", "\f[\"a\"]", "\fa,b\f", "\t[\"a,b\"]\r\n", "\f"}

IdStrings ==
  UNION {[1..n -> IdAlphabet] : n \in 0..MaxIdChars} \cup {Chars(w) : w \in IdSamples}

\* Elements of the arrays given as input.
IdElements ==
  {JSString(Chars("a")), JSString(Chars(" b ")), JSString(<<>>), JSNumber(1), JSNull}

IdsInputs ==
  {JSNull, JSUndefined, JSNumber(1), JSBoolean(TRUE), JSObject}
    \cup {JSString(cs) : cs \in IdStrings}
    \cup {JSArray(vs) : vs \in UNION {[1..n -> IdElements] : n \in 0..MaxIdArray}}

InitIds ==
  /\ PaymentsIdle
  /\ AsyncIdle
  /\ LoadersIdle
  /\ AuthIdle
  /\ idsInput \in IdsInputs
  /\ idsOutput = <<>>
  /\ StatusIdle /\ StatsIdle /\ BackendIdle /\ TeacherIdle /\ ViewsIdle
  /\ StoreIdle /\ PagesIdle

NormalizeIds ==
  /\ idsOutput = <<>>
  /\ idsOutput' = <<normalizeStudentIds(idsInput)>>
  /\ UNCHANGED <<varsPayments, varsAsync, varsLoaders, varsAuth, idsInput, varsStatus, varsStats, varsBackend, varsStore, varsPages, varsTeacher, varsViews>>

NextIds == NormalizeIds

SpecIds == InitIds /\ [][NextIds]_vars

\* Clause (a): the elements stringified and trimmed, empties dropped, order
\* and duplicates kept.
RECURSIVE RefElements(_)
RefElements(vs) ==
  IF vs = <<>> THEN <<>>
  ELSE LET id == trim(TemplateString(Head(vs)))
       IN (IF id = <<>> THEN <<>> ELSE <<id>>) \o RefElements(Tail(vs))

\* Clause (c): the pieces between commas, without the characters [ ] { } ",
\* trimmed, empties dropped.
RECURSIVE RefPieces(_, _)
RefPieces(s, piece) ==
  LET id == trim(piece)
      done == IF id = <<>> THEN <<>> ELSE <<id>>
  IN IF s = <<>> THEN done
     ELSE IF Head(s) = "," THEN done \o RefPieces(Tail(s), <<>>)
     ELSE IF Head(s) \in {"[", "]", "{", "}", "\""} THEN RefPieces(Tail(s), piece)
     ELSE RefPieces(Tail(s), Append(piece, Head(s)))

\* The reference parser of clauses (a) to (d); `text` is the text whose JSON
\* parse decides between clauses (b) and (c).
RefIds(input, text) ==
  IF input.t = "array" THEN RefElements(input.items)
  ELSE IF input.t = "string" /\ trim(input.s) # <<>>
  THEN IF JsonParse(text).ok /\ JsonParse(text).v.t = "array"
       THEN RefElements(JsonParse(text).v.items)
       ELSE RefPieces(input.s, <<>>)
  ELSE <<>>

\* C6 as stated: normalizeStudentIds returns, without raising, the reference
\* parser's list, where clause (b) applies to a string that parses as a JSON
\* array.
C6_EqualsReferenceAsStated ==
  idsOutput # <<>> =>
    /\ ~idsOutput[1].threw
    /\ idsOutput[1].ids = RefIds(idsInput, idsInput.s)

\* C6 amended: normalizeStudentIds returns, without raising, the reference
\* parser's list, where clause (b) applies to a string whose trimmed form
\* (String.prototype.trim) parses as a JSON array.
C6_EqualsReference ==
  idsOutput # <<>> =>
    /\ ~idsOutput[1].threw
    /\ idsOutput[1].ids = RefIds(idsInput, trim(idsInput.s))

\* C6 witness: the call has returned for a text that fails to parse and is
\* split at its comma.
C6_Witness ==
  /\ idsInput = JSString(Chars("[\"a\", \"b\"]extra"))
  /\ idsOutput = <<Returned(<<Chars("a"), Chars("bextra")>>)>>

------------------------------------------------------------------------------
(***************************************************************************)
(* Specification SpecTeacher: the three teacher pages load from backend    *)
(* tables drawn from bounded sets, and a course is selected on             *)
(* TeacherStudents.  loadAttendanceData reads no grade and the two grade   *)
(* pages read no attendance record, so the tables vary one at a time.      *)
(***************************************************************************)

\* Ids of a declared roster, dependent attendance records, grades.
MaxRoster == 2
MaxAttendance == 2
MaxGrades == 2

SeqsUpTo(S, n) == UNION {[1..k -> S] : k \in 0..n}

\* A teacher with a course, a teacher without one, an administrator, nobody.
Users ==
  {[id |-> Chars("t1"), role |-> "teacher"], [id |-> Chars("t3"), role |-> "teacher"],
   [id |-> Chars("a1"), role |-> "admin"], [id |-> <<>>, role |-> "none"]}

\* The studentIds column of a course: an array (an id may repeat), a
\* comma-separated text, or null.
DeclaredRosters ==
  {JSArray([i \in 1..Len(ids) |-> JSString(ids[i])])
     : ids \in SeqsUpTo({Chars("s1"), Chars("s2")}, MaxRoster)}
    \cup {JSString(Chars("s1, s2")), JSNull}

CourseTables ==
  {<<[id |-> Chars("C1"), name |-> Chars("Math"), teacherId |-> Chars("t1"),
      studentIds |-> declared],
     [id |-> Chars("C2"), name |-> Chars("Science"), teacherId |-> Chars("t2"),
      studentIds |-> JSArray(<<JSString(Chars("s2"))>>)]>>
     : declared \in DeclaredRosters}

\* s3 has a profile in one table and none in the other.
StudentTables ==
  {<<Chars("s1"), Chars("s2"), Chars("s3")>>, <<Chars("s1"), Chars("s2")>>}

\* Attendance records: with the id of a course, without an id, with an id
\* that is no course's.
AttendanceRecords ==
  {[studentId |-> s, courseId |-> ref[1], courseName |-> ref[2]]
     : s \in {Chars("s2"), Chars("s3")},
       ref \in {<<Chars("C1"), Chars("Math")>>, <<<<>>, Chars("Math")>>,
                <<Chars("C9"), Chars("Math")>>, <<Chars("C2"), Chars("Science")>>}}

GradeRecords ==
  {[studentId |-> s, courseId |-> Chars("C1"), score |-> p[1], maxScore |-> p[2]]
     : s \in {Chars("s1"), Chars("s3")}, p \in {<<10, 10>>, <<40, 100>>, <<7, 0>>}}
    \cup {[studentId |-> Chars("s2"), courseId |-> Chars("C2"), score |-> 10, maxScore |-> 10]}

InitTeacher ==
  /\ PaymentsIdle
  /\ AsyncIdle
  /\ LoadersIdle
  /\ AuthIdle
  /\ user \in Users
  /\ courseTable \in CourseTables
  /\ studentTable \in StudentTables
  /\ \/ attendanceTable \in SeqsUpTo(AttendanceRecords, MaxAttendance) /\ gradeTable = <<>>
     \/ attendanceTable = <<>> /\ gradeTable \in SeqsUpTo(GradeRecords, MaxGrades)
  /\ TeacherAttendance = PageInit
  /\ TeacherGrades = GradesPageInit
  /\ TeacherStudents = StudentsPageInit
  /\ profileRequests = NoRequests
  /\ pendingEffects = {}
  /\ financeTable = <<>>
  /\ ViewsIdle /\ StoreIdle /\ PagesIdle
  /\ StatusIdle /\ StatsIdle /\ IdsIdle

\* TeacherAttendance mounts: loadAttendanceData runs.
loadAttendanceData ==
  /\ TeacherAttendance.loading
  /\ TeacherAttendance' = AttendanceLoaded
  /\ profileRequests' = [profileRequests EXCEPT
                           !.TeacherAttendance = @ \o AttendanceRequests]
  /\ UNCHANGED <<varsPayments, varsAsync, varsLoaders, varsAuth, TeacherGrades, TeacherStudents, pendingEffects, varsBackend, varsStore, varsPages, varsViews, varsStatus, varsStats, varsIds>>

\* TeacherGrades mounts: loadGradeData runs.
loadGradeData ==
  /\ TeacherGrades.loading
  /\ TeacherGrades' = GradesLoaded
  /\ profileRequests' = [profileRequests EXCEPT
                           !.TeacherGrades = @ \o GradesRequests]
  /\ pendingEffects' = pendingEffects \cup {"studentNames"}
  /\ UNCHANGED <<varsPayments, varsAsync, varsLoaders, varsAuth, TeacherAttendance, TeacherStudents, varsBackend, varsStore, varsPages, varsViews, varsStatus, varsStats, varsIds>>

\* TeacherStudents mounts: loadData runs.
loadData ==
  /\ TeacherStudents.loading
  /\ TeacherStudents' = StudentsLoaded
  /\ profileRequests' = [profileRequests EXCEPT
                           !.TeacherStudents = @ \o StudentsRequests(normalizedCourses)]
  /\ UNCHANGED <<varsPayments, varsAsync, varsLoaders, varsAuth, TeacherAttendance, TeacherGrades, pendingEffects, varsBackend, varsStore, varsPages, varsViews, varsStatus, varsStats, varsIds>>

\* The course filter of TeacherStudents offers 'all' and the page's courses.
setSelectedCourseId(courseId) ==
  /\ ~TeacherStudents.loading
  /\ \/ courseId = AllCourses
     \/ \E i \in 1..Len(TeacherStudents.courses) : TeacherStudents.courses[i].id = courseId
  /\ TeacherStudents' = [TeacherStudents EXCEPT !.selectedCourseId = courseId]
  /\ UNCHANGED <<varsPayments, varsAsync, varsLoaders, varsAuth, TeacherAttendance, TeacherGrades, profileRequests, pendingEffects, varsBackend, varsStore, varsPages, varsViews, varsStatus, varsStats, varsIds>>

\* TeacherGrades: the name effect runs.  getStudent is asked once per missing
\* student; it rejects for an id without a profile, and the names found go
\* to the cache, which schedules the effect again.
fetchStudentNames ==
  /\ "studentNames" \in pendingEffects
  /\ profileRequests' =
       [profileRequests EXCEPT
          !.TeacherGrades = @ \o [i \in 1..Len(missing) |->
                                    [call |-> "getStudent", ids |-> <<missing[i]>>]]]
  /\ TeacherGrades' =
       [TeacherGrades EXCEPT
          !.studentNameCache = @ \o SelectSeq(missing, LAMBDA id : Includes(studentTable, id))]
  /\ pendingEffects' =
       IF SelectSeq(missing, LAMBDA id : Includes(studentTable, id)) # <<>>
       THEN pendingEffects ELSE pendingEffects \ {"studentNames"}
  /\ UNCHANGED <<varsPayments, varsAsync, varsLoaders, varsAuth, TeacherAttendance, TeacherStudents, varsBackend, varsStore, varsPages, varsViews,
                 varsStatus, varsStats, varsIds>>

NextTeacher ==
  \/ loadAttendanceData
  \/ loadGradeData
  \/ loadData
  \/ fetchStudentNames
  \/ \E courseId \in {AllCourses, Chars("C1"), Chars("C2")} : setSelectedCourseId(courseId)

SpecTeacher == InitTeacher /\ [][NextTeacher]_vars

HasProfile(id) == Includes(studentTable, id)

\* The declared roster of a course: its studentIds column, normalized.
DeclaredOf(courseId) ==
  LET i == CHOOSE i \in 1..Len(courseTable) : courseTable[i].id = courseId
  IN normalizedCourses[i].studentIds

StudentIdsOf(recs) == [i \in 1..Len(recs) |-> recs[i].studentId]

\* The students of the attendance records that name the course by its id, or
\* carry no course id and name it by its name.
AttendanceDependents(course) ==
  StudentIdsOf(SelectSeq(attendanceTable,
    LAMBDA record : \/ record.courseId = course.id
                    \/ record.courseId = <<>> /\ record.courseName = course.name))

\* The students of the grades of the course.
GradeDependents(course) ==
  StudentIdsOf(SelectSeq(gradeTable, LAMBDA grade : grade.courseId = course.id))

\* The reconciled roster: every student once, the declared ones first in
\* declared order, then the ones of the dependent records in order of first
\* appearance (a student is listed when the student has a profile).
Reconciled(declared, dependents) ==
  SelectSeq(Unique(declared \o dependents), HasProfile)

RosterOf(courseRosters, courseId) ==
  LET hits == {i \in 1..Len(courseRosters) : courseRosters[i].courseId = courseId}
  IN IF hits = {} THEN <<>> ELSE courseRosters[CHOOSE i \in hits : TRUE].students

\* C1: on each teacher page that has loaded, the roster of every course of
\* the page lists each student once: the students of the declared roster in
\* declared order, then the students seen only in the course's dependent
\* records (attendance records, grades) in order of first appearance.
C1_ReconciledRoster ==
  /\ ~TeacherAttendance.loading =>
       \A i \in 1..Len(TeacherAttendance.courses) :
         RosterOf(TeacherAttendance.courseRosters, TeacherAttendance.courses[i].id)
           = Reconciled(DeclaredOf(TeacherAttendance.courses[i].id),
                        AttendanceDependents(TeacherAttendance.courses[i]))
  /\ ~TeacherGrades.loading =>
       \A i \in 1..Len(TeacherGrades.courses) :
         RosterOf(TeacherGrades.courseRosters, TeacherGrades.courses[i].id)
           = Reconciled(DeclaredOf(TeacherGrades.courses[i].id),
                        GradeDependents(TeacherGrades.courses[i]))
  /\ ~TeacherStudents.loading =>
       \A i \in 1..Len(TeacherStudents.courses) :
         RosterOf(TeacherStudents.courseRosters, TeacherStudents.courses[i].id)
           = Reconciled(DeclaredOf(TeacherStudents.courses[i].id),
                        GradeDependents(TeacherStudents.courses[i]))

\* The part of C1 that TeacherAttendance and TeacherGrades meet.
ReconciledOnAttendanceAndGrades ==
  /\ ~TeacherAttendance.loading =>
       \A i \in 1..Len(TeacherAttendance.courses) :
         RosterOf(TeacherAttendance.courseRosters, TeacherAttendance.courses[i].id)
           = Reconciled(DeclaredOf(TeacherAttendance.courses[i].id),
                        AttendanceDependents(TeacherAttendance.courses[i]))
  /\ ~TeacherGrades.loading =>
       \A i \in 1..Len(TeacherGrades.courses) :
         RosterOf(TeacherGrades.courseRosters, TeacherGrades.courses[i].id)
           = Reconciled(DeclaredOf(TeacherGrades.courses[i].id),
                        GradeDependents(TeacherGrades.courses[i]))

\* C7: once TeacherAttendance has loaded, a record whose student has a
\* profile is in the roster of course C when it carries C's id, and, when it
\* carries no course id or one that is the id of no course, when it carries
\* C's name.
C7_NameFallback ==
  ~TeacherAttendance.loading =>
    \A i \in 1..Len(TeacherAttendance.courses) : \A r \in 1..Len(attendanceTable) :
      LET course == TeacherAttendance.courses[i]
          record == attendanceTable[r]
          known == \E c \in 1..Len(courseTable) : courseTable[c].id = record.courseId
      IN (/\ HasProfile(record.studentId)
          /\ \/ record.courseId = course.id
             \/ (record.courseId = <<>> \/ ~known) /\ record.courseName = course.name)
         => Includes(RosterOf(TeacherAttendance.courseRosters, course.id), record.studentId)

\* The part of C7 the code meets: the records that carry C's id, or no
\* course id and C's name.
NameFallbackWithoutId ==
  ~TeacherAttendance.loading =>
    \A i \in 1..Len(TeacherAttendance.courses) : \A r \in 1..Len(attendanceTable) :
      LET course == TeacherAttendance.courses[i]
          record == attendanceTable[r]
      IN (/\ HasProfile(record.studentId)
          /\ \/ record.courseId = course.id
             \/ record.courseId = <<>> /\ record.courseName = course.name)
         => Includes(RosterOf(TeacherAttendance.courseRosters, course.id), record.studentId)

RECURSIVE SumOf(_, _)
SumOf(grades, field) ==
  IF grades = <<>> THEN 0 ELSE Head(grades)[field] + SumOf(Tail(grades), field)

\* C9: with a course selected on TeacherStudents, the cumulative grade of a
\* student of its roster who has grades in the course (each of positive
\* maxScore) is 100 * sum of score / sum of maxScore, to within one point of
\* rounding.
C9_SumOfPoints ==
  (~TeacherStudents.loading /\ TeacherStudents.selectedCourseId # AllCourses) =>
    \A id \in {Chars("s1"), Chars("s2"), Chars("s3")} :
      LET mine == SelectSeq(gradeTable,
                    LAMBDA grade : /\ grade.studentId = id
                                   /\ grade.courseId = TeacherStudents.selectedCourseId)
          shown == getCumulativeGrade(id)
          exact == RoundNearest(100 * SumOf(mine, "score"), SumOf(mine, "maxScore"))
      IN (/\ Includes(RosterOf(TeacherStudents.courseRosters,
                               TeacherStudents.selectedCourseId), id)
          /\ mine # <<>>
          /\ \A g \in 1..Len(mine) : mine[g].maxScore > 0)
         => /\ shown.k = "fin"
            /\ MathRound(shown) - exact \in {-1, 0, 1}

Range(list) == {list[i] : i \in 1..Len(list)}

\* The roster ids of a page's courses that getStudents did not return: the
\* non-empty ids of the declared rosters and of the dependent records that
\* have no profile.
MissingIds(courses, Dependents(_)) ==
  SelectSeq(Flat([i \in 1..Len(courses) |->
                    DeclaredOf(courses[i].id) \o Dependents(courses[i])]),
            LAMBDA id : NonEmpty(id) /\ ~HasProfile(id))

\* The ids carried by the getStudentsByIds calls of a page.
BatchedIds(page) ==
  UNION {Range(profileRequests[page][i].ids) :
           i \in {j \in 1..Len(profileRequests[page]) :
                    profileRequests[page][j].call = "getStudentsByIds"}}

\* The getStudentsByIds calls of a page: at most one, of distinct ids, and,
\* once the page has loaded, of exactly the ids in `wanted` (none when
\* `wanted` is empty).
BatchedOnce(page, loading, wanted) ==
  LET calls == SelectSeq(profileRequests[page], LAMBDA r : r.call = "getStudentsByIds")
  IN /\ Len(calls) <= 1
     /\ \A i \in 1..Len(calls) : calls[i].ids # <<>> /\ Unique(calls[i].ids) = calls[i].ids
     /\ ~loading => /\ BatchedIds(page) = Range(wanted)
                    /\ (wanted = <<>>) = (calls = <<>>)

\* C11: on TeacherAttendance and TeacherGrades the profiles of the roster ids
\* that getStudents did not return are asked with at most one
\* getStudentsByIds call, of exactly those ids, none when there is none, and
\* no profile is ever asked one id at a time (getStudent).
C11_BatchedLookup ==
  /\ BatchedOnce("TeacherAttendance", TeacherAttendance.loading,
                 MissingIds(TeacherAttendance.courses, AttendanceDependents))
  /\ BatchedOnce("TeacherGrades", TeacherGrades.loading,
                 MissingIds(TeacherGrades.courses, GradeDependents))
  /\ \A page \in {"TeacherAttendance", "TeacherGrades"} :
       \A i \in 1..Len(profileRequests[page]) :
         profileRequests[page][i].call # "getStudent"

\* The part of C11 that holds: the loads themselves batch their lookups, and
\* TeacherAttendance never asks one id at a time.
BatchedLoads ==
  /\ BatchedOnce("TeacherAttendance", TeacherAttendance.loading,
                 MissingIds(TeacherAttendance.courses, AttendanceDependents))
  /\ BatchedOnce("TeacherGrades", TeacherGrades.loading,
                 MissingIds(TeacherGrades.courses, GradeDependents))
  /\ \A i \in 1..Len(profileRequests["TeacherAttendance"]) :
       profileRequests["TeacherAttendance"][i].call # "getStudent"

\* An attendance record that matches none of the user's courses, by id or
\* by name.
Unmatched(record) ==
  \A i \in 1..Len(courseTable) :
    courseTable[i].teacherId = user.id =>
      /\ courseTable[i].id # record.courseId
      /\ courseTable[i].name # record.courseName

\* The students a roster of TeacherAttendance owes to its declared ids and to
\* the records that match one of the user's courses only.
AddsNoStudent ==
  \A i \in 1..Len(TeacherAttendance.courses) :
    \A k \in 1..Len(RosterOf(TeacherAttendance.courseRosters, TeacherAttendance.courses[i].id)) :
      Includes(DeclaredOf(TeacherAttendance.courses[i].id)
                 \o StudentIdsOf(SelectSeq(attendanceTable, LAMBDA record : ~Unmatched(record))),
               RosterOf(TeacherAttendance.courseRosters, TeacherAttendance.courses[i].id)[k])

\* C12: once TeacherAttendance has loaded the courses of a teacher, an
\* attendance record that matches none of the teacher's courses (by courseId
\* or by courseName) has added no student to a roster, and is in the record
\* list the page keeps (records).
C12_UnmatchedKept ==
  (~TeacherAttendance.loading /\ TeacherAttendance.courses # <<>>) =>
    /\ AddsNoStudent
    /\ \A r \in 1..Len(attendanceTable) :
         Unmatched(attendanceTable[r]) =>
           Includes(TeacherAttendance.records, attendanceTable[r])

\* The part of C12 that holds, and what the page does with such a record: it
\* adds no student, and the record is not in the list the page keeps.
UnmatchedDropped ==
  (~TeacherAttendance.loading /\ TeacherAttendance.courses # <<>>) =>
    /\ AddsNoStudent
    /\ \A r \in 1..Len(attendanceTable) :
         Unmatched(attendanceTable[r]) =>
           ~Includes(TeacherAttendance.records, attendanceTable[r])

------------------------------------------------------------------------------
(***************************************************************************)
(* Specification SpecViews: the grade views and the fee view load from     *)
(* backend tables drawn from bounded sets.  The grade views read no        *)
(* finance row and StudentFinance reads no grade, so the tables vary one   *)
(* at a time.                                                              *)
(***************************************************************************)

\* Grades in the table.
MaxViewGrades == 2

\* Grades of two students in two courses: full marks, 40 of 100, 23 of 40
\* (57.5 per cent), and assessments with maxScore 0.
ViewGrades ==
  {[studentId |-> p[1], courseId |-> p[2], score |-> g[1], maxScore |-> g[2]]
     : p \in {<<Chars("s1"), Chars("C1")>>, <<Chars("s1"), Chars("C2")>>,
              <<Chars("s2"), Chars("C1")>>},
       g \in {<<10, 10>>, <<40, 100>>, <<23, 40>>, <<0, 0>>, <<5, 0>>}}

\* Finance rows of student s1: part paid, all paid, and rows with totalFee 0.
FinanceRows ==
  {[studentId |-> Chars("s1"), totalFee |-> f[1], scholarship |-> f[2],
    paid |-> f[3], due |-> f[4]]
     : f \in {<<1000, 0, 250, 750>>, <<1000, 200, 800, 0>>, <<0, 0, 0, 0>>, <<0, 0, 50, 0>>}}

InitViews ==
  /\ PaymentsIdle
  /\ AsyncIdle
  /\ LoadersIdle
  /\ AuthIdle
  /\ user \in {[id |-> Chars("s1"), role |-> "student"], [id |-> Chars("s2"), role |-> "student"],
               [id |-> <<>>, role |-> "none"]}
  /\ courseTable = <<>>
  /\ studentTable = <<Chars("s1"), Chars("s2")>>
  /\ attendanceTable = <<>>
  /\ \/ gradeTable \in SeqsUpTo(ViewGrades, MaxViewGrades) /\ financeTable = <<>>
     \/ gradeTable = <<>> /\ financeTable \in {<<f>> : f \in FinanceRows}
  /\ ViewsIdle /\ TeacherIdle /\ StoreIdle /\ PagesIdle
  /\ StatusIdle /\ StatsIdle /\ IdsIdle

\* AdminClasses mounts: loadData runs.
AdminClassesLoadData ==
  /\ AdminClasses.loading
  /\ AdminClasses' = [rows |-> Compiled(Aggregate(getAllGrades, <<>>)), loading |-> FALSE]
  /\ UNCHANGED <<varsPayments, varsAsync, varsLoaders, varsAuth, StudentResults, Performance, StudentFinance,
                 varsBackend, varsStore, varsPages, varsTeacher, varsStatus, varsStats, varsIds>>

\* StudentResults mounts: load runs.
StudentResultsLoad ==
  /\ StudentResults.loading
  /\ StudentResults' =
       IF user.id = <<>> THEN [StudentResults EXCEPT !.loading = FALSE]
       ELSE [grades |-> getGradesByStudent(user.id), loading |-> FALSE]
  /\ UNCHANGED <<varsPayments, varsAsync, varsLoaders, varsAuth, AdminClasses, Performance, StudentFinance,
                 varsBackend, varsStore, varsPages, varsTeacher, varsStatus, varsStats, varsIds>>

\* Performance: a child is selected and loadRecords runs.
PerformanceLoadRecords(child) ==
  /\ Performance.selectedChild # child
  /\ Performance' = [selectedChild |-> child, childGrades |-> getGradesByStudent(child),
                      childAttendance |-> getAttendanceByStudent(child)]
  /\ UNCHANGED <<varsPayments, varsAsync, varsLoaders, varsAuth, AdminClasses, StudentResults, StudentFinance,
                 varsBackend, varsStore, varsPages, varsTeacher, varsStatus, varsStats, varsIds>>

\* StudentFinance mounts: loadFinance(user.id) runs.
loadFinance ==
  /\ ~StudentFinance.loaded
  /\ StudentFinance' =
       [finance |-> IF user.id = <<>> THEN <<>> ELSE getFinanceForStudent(user.id),
        loaded |-> TRUE]
  /\ UNCHANGED <<varsPayments, varsAsync, varsLoaders, varsAuth, AdminClasses, StudentResults, Performance,
                 varsBackend, varsStore, varsPages, varsTeacher, varsStatus, varsStats, varsIds>>

NextViews ==
  \/ AdminClassesLoadData
  \/ StudentResultsLoad
  \/ \E child \in {Chars("s1"), Chars("s2")} : PerformanceLoadRecords(child)
  \/ loadFinance

SpecViews == InitViews /\ [][NextViews]_vars

\* The (studentId, courseId) pairs of the grades.
GradePairs == {<<gradeTable[i].studentId, gradeTable[i].courseId>> : i \in 1..Len(gradeTable)}

GradesOfPair(p) ==
  SelectSeq(gradeTable, LAMBDA grade : grade.studentId = p[1] /\ grade.courseId = p[2])

RowsOfPair(p) ==
  {i \in 1..Len(AdminClasses.rows) :
     AdminClasses.rows[i].student = p[1] /\ AdminClasses.rows[i].course = p[2]}

\* C8: once AdminClasses has loaded, there is exactly one row per
\* (studentId, courseId) pair of the grades and no other row, and the row's
\* cumulative is 100 * sum of score / sum of maxScore over the pair's grades
\* rounded to the nearest integer, 0 when the sum of maxScore is 0.
C8_SumOfPointsRows ==
  ~AdminClasses.loading =>
    /\ Len(AdminClasses.rows) = Cardinality(GradePairs)
    /\ \A p \in GradePairs :
         /\ Cardinality(RowsOfPair(p)) = 1
         /\ \A i \in RowsOfPair(p) :
              AdminClasses.rows[i].cumulative =
                IF SumOf(GradesOfPair(p), "maxScore") = 0 THEN 0
                ELSE RoundNearest(100 * SumOf(GradesOfPair(p), "score"),
                                  SumOf(GradesOfPair(p), "maxScore"))

\* The part of C8 the code meets: one row per pair, and a cumulative within
\* one point of the rounded sum-of-points percentage.
OneRowPerPair ==
  ~AdminClasses.loading =>
    /\ Len(AdminClasses.rows) = Cardinality(GradePairs)
    /\ \A p \in GradePairs :
         /\ Cardinality(RowsOfPair(p)) = 1
         /\ \A i \in RowsOfPair(p) :
              IF SumOf(GradesOfPair(p), "maxScore") = 0
              THEN AdminClasses.rows[i].cumulative = 0
              ELSE AdminClasses.rows[i].cumulative
                     - RoundNearest(100 * SumOf(GradesOfPair(p), "score"),
                                    SumOf(GradesOfPair(p), "maxScore")) \in {-1, 0}

\* C10: the derived percentages are finite numbers: the averages of
\* StudentResults and Performance, every per-grade percentage (0 when
\* maxScore is 0) and the paid percentage (0 when totalFee is 0).
C10_DivisionGuarded ==
  /\ ~StudentResults.loading =>
       /\ averageScore.k = "fin"
       /\ \A i \in 1..Len(StudentResults.grades) :
            /\ percentage(StudentResults.grades[i]).k = "fin"
            /\ StudentResults.grades[i].maxScore = 0
                 => percentage(StudentResults.grades[i]) = DZero
  /\ Performance.selectedChild # <<>> =>
       calculateAverageGrade \notin {JSString(Chars("NaN")), JSString(Chars("Infinity"))}
  /\ StudentFinance.loaded =>
       /\ paidPercentage.k = "fin"
       /\ (StudentFinance.finance # <<>> /\ StudentFinance.finance[1].totalFee = 0)
            => paidPercentage = DZero

\* Where C10 is met: the percentages are finite when no grade has maxScore 0
\* and the fee is not 0.
FiniteOnPositiveDenominators ==
  /\ (~StudentResults.loading
        /\ \A i \in 1..Len(StudentResults.grades) : StudentResults.grades[i].maxScore > 0)
       => averageScore.k = "fin"
  /\ (Performance.selectedChild # <<>>
        /\ \A i \in 1..Len(Performance.childGrades) : Performance.childGrades[i].maxScore > 0)
       => calculateAverageGrade \notin {JSString(Chars("NaN")), JSString(Chars("Infinity"))}
  /\ (StudentFinance.loaded /\ StudentFinance.finance # <<>>
        /\ StudentFinance.finance[1].totalFee > 0)
       => paidPercentage.k = "fin"

------------------------------------------------------------------------------
(***************************************************************************)
(* The in-memory store and its write operations (src/lib/store.ts), the    *)
(* write operations of src/lib/api.ts, and AdminFinance.  A numeric field  *)
(* of a finance record is a JavaScript value: a number, NaN, null (the     *)
(* column is NULL) or undefined (the row has no such key).  Amounts are    *)
(* integers, which binary64 holds exactly.                                 *)
(***************************************************************************)

JSNaN == [t |-> "NaN", s |-> <<>>, n |-> 0, b |-> FALSE, items |-> <<>>]

\* ToNumber of a number, NaN, null or undefined.
ToNumber(v) ==
  IF v.t = "number" THEN v
  ELSE IF v.t = "null" THEN JSNumber(0)
  ELSE JSNaN

\* Whether a or b is NaN as a number.
EitherNaN(a, b) == ToNumber(a).t = "NaN" \/ ToNumber(b).t = "NaN"

\* a + b, a - b, Math.min(a, b) and Math.max(a, b) on such values.
Plus(a, b) ==
  IF EitherNaN(a, b) THEN JSNaN ELSE JSNumber(ToNumber(a).n + ToNumber(b).n)

Minus(a, b) ==
  IF EitherNaN(a, b) THEN JSNaN ELSE JSNumber(ToNumber(a).n - ToNumber(b).n)

MathMin(a, b) ==
  IF EitherNaN(a, b) THEN JSNaN
  ELSE IF ToNumber(a).n <= ToNumber(b).n THEN ToNumber(a) ELSE ToNumber(b)

MathMax(a, b) ==
  IF EitherNaN(a, b) THEN JSNaN
  ELSE IF ToNumber(a).n >= ToNumber(b).n THEN ToNumber(a) ELSE ToNumber(b)

\* a === b on such values: NaN equals nothing.
StrictEquals(a, b) == a.t # "NaN" /\ a = b

\* What the request body carries for a value: JSON has no NaN and writes
\* null, and leaves out a key whose value is undefined.
Serialized(v) == IF v.t = "NaN" THEN JSNull ELSE v

\* The answer of the backend to an insert or update: the client resolves
\* with { data, error }, error set when the backend refused the write.
Answers == {"ok", "error"}

\* The index of the finance record store.finances.find returns, 0 for none.
FindFinance(studentId) ==
  LET hits == {i \in 1..Len(store.finances) : store.finances[i].studentId = studentId}
  IN IF hits = {} THEN 0 ELSE CHOOSE i \in hits : \A j \in hits : i <= j

\* applied = Math.min(amount, fin.due).
Applied(fin, amount) == MathMin(amount, fin.due)


\* fin after a payFee that would add the whole amount to paid.
PaidInFull(fin, amount) ==
  LET withPaid == [fin EXCEPT !.paid = Plus(fin.paid, amount)]
  IN [withPaid EXCEPT !.due = MathMax(JSNumber(0),
                                      Minus(Minus(withPaid.totalFee, withPaid.scholarship),
                                            withPaid.paid))]

\* fin after `fin.paid += applied; fin.due = Math.max(0, ...)`.
Paid(fin, amount) ==
  LET withPaid == [fin EXCEPT !.paid = Plus(fin.paid, Applied(fin, amount))]
  IN [withPaid EXCEPT !.due = MathMax(JSNumber(0),
                                      Minus(Minus(withPaid.totalFee, withPaid.scholarship),
                                            withPaid.paid))]

\* update({ paid, due }).eq('id', id) on the Finance table.
UpdateFinance(rows, id, sent) ==
  [i \in 1..Len(rows) |->
     IF rows[i].id = id THEN [rows[i] EXCEPT !.paid = sent.paid, !.due = sent.due]
     ELSE rows[i]]

\* Writes called per run.
MaxCalls == 3

\* payFee(studentId, amount), the backend answering the update with `answer`.
payFee(studentId, amount, answer) ==
  /\ writeCalls < MaxCalls
  /\ writeCalls' = writeCalls + 1
  /\ IF FindFinance(studentId) = 0
     THEN /\ outcome' = [op |-> "payFee", answer |-> "none", result |-> "rejected",
                         sent |-> <<>>, arg |-> [studentId |-> studentId, amount |-> amount],
                         before |-> <<>>]
          /\ UNCHANGED <<store, tables, payments>>
     ELSE LET fin == Paid(store.finances[FindFinance(studentId)], amount)
              sent == [paid |-> Serialized(fin.paid), due |-> Serialized(fin.due)]
          IN /\ store' = [store EXCEPT !.finances[FindFinance(studentId)] = fin]
             /\ tables' = IF answer = "ok"
                          THEN [tables EXCEPT !.finances = UpdateFinance(@, fin.id, sent)]
                          ELSE tables
             /\ payments' = [payments EXCEPT
                              !.applied = <<Applied(store.finances[FindFinance(studentId)], amount)>>,
                              !.total = Plus(@, Applied(store.finances[FindFinance(studentId)], amount))]
             /\ outcome' = [op |-> "payFee", answer |-> answer, result |-> "returned",
                            sent |-> <<sent>>,
                            arg |-> [studentId |-> studentId, amount |-> amount],
                            before |-> <<store.finances[FindFinance(studentId)]>>]
  /\ UNCHANGED <<varsAsync, varsLoaders, varsAuth, varsPages, varsBackend, varsTeacher, varsViews,
                 varsStatus, varsStats, varsIds>>

\* AdminFinance, loadFinances: one row per finance record of the table.
FinanceRow(fin) ==
  [id |-> fin.id, total |-> fin.totalFee, paid |-> fin.paid, scholarship |-> fin.scholarship,
   balance |-> MathMax(JSNumber(0), Minus(Minus(fin.totalFee, fin.scholarship), fin.paid))]

loadFinances ==
  /\ AdminFinance.loading
  /\ AdminFinance' = [rows |-> [i \in 1..Len(tables.finances) |-> FinanceRow(tables.finances[i])],
                      loading |-> FALSE]
  /\ UNCHANGED <<varsPayments, varsAsync, varsLoaders, varsAuth, varsStore, varsDashboards, varsAdmin, varsBackend, varsTeacher, varsViews,
                 varsStatus, varsStats, varsIds>>

(***************************************************************************)
(* Specification SpecFinance: payments on the finance record of student    *)
(* s1, whose scholarship and paid fields are numbers, null or absent, and  *)
(* the load of AdminFinance.                                               *)
(***************************************************************************)

\* The value a field counts for when a missing one counts for zero.
OrZero(v) == IF v.t = "number" THEN v.n ELSE 0

Max0(n) == IF n >= 0 THEN n ELSE 0

FinanceRecords ==
  {[id |-> Chars("f1"), studentId |-> Chars("s1"), totalFee |-> JSNumber(1000),
    scholarship |-> sch, paid |-> pd,
    due |-> JSNumber(Max0(1000 - OrZero(sch) - OrZero(pd)))]
     : sch \in {JSNumber(0), JSNumber(200), JSNull, JSUndefined},
       pd \in {JSNumber(0), JSNumber(250), JSNumber(1000), JSNull, JSUndefined}}

Amounts == {JSNumber(-50), JSNumber(100), JSNumber(5000), JSNaN}

InitFinance ==
  /\ AsyncIdle
  /\ LoadersIdle
  /\ AuthIdle
  /\ \E fin \in FinanceRecords :
       /\ tables = [EmptyStore EXCEPT !.finances = <<fin>>]
       /\ store = [EmptyStore EXCEPT !.finances = <<fin>>]
       /\ payments = [initial |-> <<fin>>, applied |-> <<>>, total |-> JSNumber(0)]
  /\ outcome = NoCall
  /\ writeCalls = 0
  /\ PagesIdle /\ BackendIdle /\ TeacherIdle /\ ViewsIdle
  /\ StatusIdle /\ StatsIdle /\ IdsIdle

NextFinance ==
  \/ \E studentId \in {Chars("s1"), Chars("s2")}, amount \in Amounts, answer \in Answers :
       payFee(studentId, amount, answer)
  \/ loadFinances

SpecFinance == InitFinance /\ [][NextFinance]_vars

\* The finance record of the student of the last call.
Paying == store.finances[FindFinance(outcome.arg.studentId)]

\* C13: after every payFee call that returns, the finance record in the
\* store has due == max(0, totalFee - scholarship - paid), and the paid and
\* due sent to the Finance table are those of the record.
C13_DueInvariant ==
  (outcome.op = "payFee" /\ outcome.result = "returned") =>
    /\ StrictEquals(Paying.due,
                    MathMax(JSNumber(0),
                            Minus(Minus(Paying.totalFee, Paying.scholarship), Paying.paid)))
    /\ outcome.sent = <<[paid |-> Paying.paid, due |-> Paying.due]>>

\* A record whose numeric fields are all set, to a number or to null.
Complete(fin) ==
  \A field \in {"totalFee", "scholarship", "paid", "due"} : fin[field].t \in {"number", "null"}

\* The part of C13 that holds: the same, for a call with a number as amount
\* on a record that has every field.
DueInvariantOnNumbers ==
  (/\ outcome.op = "payFee" /\ outcome.result = "returned"
   /\ outcome.arg.amount.t = "number"
   /\ Complete(outcome.before[1])) =>
    /\ StrictEquals(Paying.due,
                    MathMax(JSNumber(0),
                            Minus(Minus(Paying.totalFee, Paying.scholarship), Paying.paid)))
    /\ outcome.sent = <<[paid |-> Paying.paid, due |-> Paying.due]>>

Missing(v) == v.t \in {"null", "undefined"}

\* C20: for a finance record without scholarship (or without paid), the
\* balance AdminFinance shows, and the due payFee leaves for an amount that
\* is a number, is max(0, totalFee - scholarship - paid) with the missing
\* field taken as 0: a number, never NaN.
C20_MissingAsZero ==
  /\ ~AdminFinance.loading =>
       \A i \in 1..Len(AdminFinance.rows) :
         (Missing(AdminFinance.rows[i].scholarship) \/ Missing(AdminFinance.rows[i].paid)) =>
           AdminFinance.rows[i].balance
             = JSNumber(Max0(OrZero(AdminFinance.rows[i].total)
                             - OrZero(AdminFinance.rows[i].scholarship)
                             - OrZero(AdminFinance.rows[i].paid)))
  /\ (/\ outcome.op = "payFee" /\ outcome.result = "returned"
      /\ outcome.arg.amount.t = "number"
      /\ outcome.before[1].due.t = "number"
      /\ Missing(outcome.before[1].scholarship) \/ Missing(outcome.before[1].paid)) =>
       Paying.due = JSNumber(Max0(OrZero(Paying.totalFee) - OrZero(Paying.scholarship)
                                  - OrZero(Paying.paid)))

\* The part of C20 that holds: a field that is null counts for zero.
NullAsZero ==
  /\ ~AdminFinance.loading =>
       \A i \in 1..Len(AdminFinance.rows) :
         (\A field \in {"total", "scholarship", "paid"} :
            AdminFinance.rows[i][field].t \in {"number", "null"}) =>
           AdminFinance.rows[i].balance
             = JSNumber(Max0(OrZero(AdminFinance.rows[i].total)
                             - OrZero(AdminFinance.rows[i].scholarship)
                             - OrZero(AdminFinance.rows[i].paid)))
  /\ (/\ outcome.op = "payFee" /\ outcome.result = "returned"
      /\ outcome.arg.amount.t = "number"
      /\ Complete(outcome.before[1])) =>
       Paying.due = JSNumber(Max0(OrZero(Paying.totalFee) - OrZero(Paying.scholarship)
                                  - OrZero(Paying.paid)))

------------------------------------------------------------------------------
(***************************************************************************)
(* The other write operations of src/lib/store.ts and those of             *)
(* src/lib/api.ts.  A record of a collection other than finances is        *)
(* written [id, v]: its id and the one value the operations set (a score,  *)
(* a status, a name, a role).                                              *)
(***************************************************************************)

\* uuid(): an id no record has yet, the k-th of the call.
uuid(k) == <<"u">> \o NatToString(writeCalls + 1) \o <<"-">> \o NatToString(k)

\* The last call, for an operation that sends no finance payload.
Called(op, answer, result) ==
  [op |-> op, answer |-> answer, result |-> result, sent |-> <<>>,
   arg |-> <<>>, before |-> <<>>]

\* What a write operation leaves alone.
WriteFrame ==
  UNCHANGED <<varsPayments, varsAsync, varsLoaders, varsAuth, varsPages, varsBackend, varsTeacher, varsViews,
              varsStatus, varsStats, varsIds>>

\* findIndex(r => r.id === id), 0 for -1.
FindIndex(rows, id) ==
  LET hits == {i \in 1..Len(rows) : rows[i].id = id}
  IN IF hits = {} THEN 0 ELSE CHOOSE i \in hits : \A j \in hits : i <= j

\* The table after insert(rows) answered with `answer`.
Inserted(table, rows, answer) == IF answer = "ok" THEN table \o rows ELSE table

\* The table after update(patch).eq('id', id) answered with `answer`.
Updated(table, id, v, answer) ==
  IF answer = "ok"
  THEN [i \in 1..Len(table) |-> IF table[i].id = id THEN [table[i] EXCEPT !.v = v] ELSE table[i]]
  ELSE table

\* store.ts, the operations that insert: `await supabase.from(T).insert(rows)`
\* (the answer is not read), then the rows go to the store and are returned.
StoreInsert(op, coll, rows, atEnd, answer) ==
  /\ writeCalls' = writeCalls + 1
  /\ tables' = [tables EXCEPT ![coll] = Inserted(@, rows, answer)]
  /\ store' = [store EXCEPT ![coll] = IF atEnd THEN @ \o rows ELSE rows \o @]
  /\ outcome' = Called(op, answer, "returned")
  /\ WriteFrame

\* store.ts, the operations that update: throw when the store has no such
\* record, else `await supabase.from(T).update(patch).eq('id', id)` (the
\* answer is not read), then the store's record is patched and returned.
StoreUpdate(op, coll, id, v, answer) ==
  /\ writeCalls' = writeCalls + 1
  /\ IF FindIndex(store[coll], id) = 0
     THEN /\ answer = "ok"
          /\ outcome' = Called(op, "none", "rejected")
          /\ UNCHANGED <<store, tables>>
     ELSE /\ tables' = [tables EXCEPT ![coll] = Updated(@, id, v, answer)]
          /\ store' = [store EXCEPT ![coll][FindIndex(store[coll], id)].v = v]
          /\ outcome' = Called(op, answer, "returned")
  /\ WriteFrame

addLesson(answer) ==
  /\ writeCalls < MaxCalls
  /\ StoreInsert("addLesson", "lessons", <<[id |-> uuid(1), v |-> Chars("x")]>>, FALSE, answer)

addAssessment(answer) ==
  /\ writeCalls < MaxCalls
  /\ StoreInsert("addAssessment", "grades", <<[id |-> uuid(1), v |-> Chars("x")]>>, FALSE, answer)

addGrade(answer) ==
  /\ writeCalls < MaxCalls
  /\ StoreInsert("addGrade", "grades", <<[id |-> uuid(1), v |-> Chars("x")]>>, FALSE, answer)

updateGrade(id, answer) ==
  /\ writeCalls < MaxCalls
  /\ StoreUpdate("updateGrade", "grades", id, Chars("y"), answer)

giveAttendance(entries, answer) ==
  /\ writeCalls < MaxCalls
  /\ StoreInsert("giveAttendance", "attendance",
                 [k \in 1..entries |-> [id |-> uuid(k), v |-> Chars("x")]], FALSE, answer)

addAttendanceRecord(answer) ==
  /\ writeCalls < MaxCalls
  /\ StoreInsert("addAttendanceRecord", "attendance", <<[id |-> uuid(1), v |-> Chars("x")]>>, FALSE, answer)

\* updateAttendanceRecord of store.ts.
storeUpdateAttendanceRecord(id, answer) ==
  /\ writeCalls < MaxCalls
  /\ StoreUpdate("store.updateAttendanceRecord", "attendance", id, Chars("y"), answer)

addCourse(answer) ==
  /\ writeCalls < MaxCalls
  /\ StoreInsert("addCourse", "courses", <<[id |-> uuid(1), v |-> Chars("x")]>>, FALSE, answer)

updateCourse(id, answer) ==
  /\ writeCalls < MaxCalls
  /\ StoreUpdate("updateCourse", "courses", id, Chars("y"), answer)

\* addUser: the user is inserted, and for a student the Student record too
\* (neither answer is read).
addUser(role, answer, studentAnswer) ==
  /\ writeCalls < MaxCalls
  /\ writeCalls' = writeCalls + 1
  /\ role # "student" => studentAnswer = "ok"
  /\ tables' = [tables EXCEPT
                  !.users = Inserted(@, <<[id |-> uuid(1), v |-> role]>>, answer),
                  !.students = IF role = "student"
                               THEN Inserted(@, <<[id |-> uuid(1), v |-> role]>>, studentAnswer)
                               ELSE @]
  /\ store' = [store EXCEPT
                 !.users = @ \o <<[id |-> uuid(1), v |-> role]>>,
                 !.students = IF role = "student" THEN @ \o <<[id |-> uuid(1), v |-> role]>>
                              ELSE @]
  /\ outcome' = Called("addUser",
                       IF answer = "ok" /\ studentAnswer = "ok" THEN "ok" ELSE "error",
                       "returned")
  /\ WriteFrame

\* api.ts, the operations that insert: insert(payload).select('*').single(),
\* `if (error) throw error`, else the row is returned.
ApiInsert(op, coll, answer) ==
  /\ writeCalls' = writeCalls + 1
  /\ tables' = [tables EXCEPT ![coll] = Inserted(@, <<[id |-> uuid(1), v |-> Chars("x")]>>, answer)]
  /\ outcome' = Called(op, answer, IF answer = "error" THEN "rejected" ELSE "returned")
  /\ UNCHANGED store
  /\ WriteFrame

\* api.ts, the operations that update: update(patch).eq('id', id)
\* .select('*').single(), `if (error) throw error`; single() answers with an
\* error when no row has the id.
ApiUpdate(op, coll, id, answer) ==
  /\ writeCalls' = writeCalls + 1
  /\ FindIndex(tables[coll], id) = 0 => answer = "error"
  /\ tables' = [tables EXCEPT ![coll] = Updated(@, id, Chars("y"), answer)]
  /\ outcome' = Called(op, answer, IF answer = "error" THEN "rejected" ELSE "returned")
  /\ UNCHANGED store
  /\ WriteFrame

createLesson(answer) ==
  /\ writeCalls < MaxCalls
  /\ ApiInsert("createLesson", "lessons", answer)

createAttendance(answer) ==
  /\ writeCalls < MaxCalls
  /\ ApiInsert("createAttendance", "attendance", answer)

createGradeRecord(answer) ==
  /\ writeCalls < MaxCalls
  /\ ApiInsert("createGradeRecord", "grades", answer)

updateAttendanceRecord(id, answer) ==
  /\ writeCalls < MaxCalls
  /\ ApiUpdate("updateAttendanceRecord", "attendance", id, answer)

updateGradeRecord(id, answer) ==
  /\ writeCalls < MaxCalls
  /\ ApiUpdate("updateGradeRecord", "grades", id, answer)

(***************************************************************************)
(* Specification SpecWrites: write operations in any order, each answered  *)
(* by the backend with success or with an error, on a store booted from    *)
(* tables of one record each.                                              *)
(***************************************************************************)

BootedStore ==
  [finances |-> <<[id |-> Chars("f1"), studentId |-> Chars("s1"), totalFee |-> JSNumber(1000),
                   scholarship |-> JSNumber(0), paid |-> JSNumber(250), due |-> JSNumber(750)]>>,
   lessons |-> <<>>,
   grades |-> <<[id |-> Chars("g1"), v |-> Chars("x")]>>,
   attendance |-> <<[id |-> Chars("a1"), v |-> Chars("x")]>>,
   users |-> <<>>,
   students |-> <<>>,
   courses |-> <<[id |-> Chars("C1"), v |-> Chars("x")]>>]

InitWrites ==
  /\ PaymentsIdle
  /\ AsyncIdle
  /\ LoadersIdle
  /\ AuthIdle
  /\ store = BootedStore
  /\ tables = BootedStore
  /\ outcome = NoCall
  /\ writeCalls = 0
  /\ PagesIdle /\ BackendIdle /\ TeacherIdle /\ ViewsIdle
  /\ StatusIdle /\ StatsIdle /\ IdsIdle

NextWrites ==
  \/ \E studentId \in {Chars("s1"), Chars("s2")}, answer \in Answers :
       payFee(studentId, JSNumber(100), answer)
  \/ \E answer \in Answers : addLesson(answer)
  \/ \E answer \in Answers : addAssessment(answer)
  \/ \E answer \in Answers : addGrade(answer)
  \/ \E id \in {Chars("g1"), Chars("g2")}, answer \in Answers : updateGrade(id, answer)
  \/ \E entries \in 1..2, answer \in Answers : giveAttendance(entries, answer)
  \/ \E answer \in Answers : addAttendanceRecord(answer)
  \/ \E id \in {Chars("a1"), Chars("a2")}, answer \in Answers :
       storeUpdateAttendanceRecord(id, answer)
  \/ \E role \in {"student", "teacher"}, answer \in Answers, studentAnswer \in Answers :
       addUser(role, answer, studentAnswer)
  \/ \E answer \in Answers : addCourse(answer)
  \/ \E id \in {Chars("C1"), Chars("C2")}, answer \in Answers : updateCourse(id, answer)
  \/ \E answer \in Answers : createLesson(answer)
  \/ \E answer \in Answers : createAttendance(answer)
  \/ \E answer \in Answers : createGradeRecord(answer)
  \/ \E id \in {Chars("a1"), Chars("a2")}, answer \in Answers :
       updateAttendanceRecord(id, answer)
  \/ \E id \in {Chars("g1"), Chars("g2")}, answer \in Answers : updateGradeRecord(id, answer)

SpecWrites == InitWrites /\ [][NextWrites]_vars

\* C14: a write operation whose insert or update the backend answers with an
\* error rejects: it never returns a value.
C14_RejectedWritePropagates ==
  outcome.answer = "error" => outcome.result = "rejected"

ApiWrites ==
  {"createLesson", "createAttendance", "updateAttendanceRecord", "createGradeRecord",
   "updateGradeRecord"}

\* The part of C14 that holds: the write operations of api.ts reject, and
\* leave the table as it was.
ApiWritesPropagate ==
  (outcome.op \in ApiWrites /\ outcome.answer = "error") => outcome.result = "rejected"

\* What the operations of store.ts do instead: they return, with the store
\* changed and the table not.
StoreWritesReturn ==
  (outcome.op \notin ApiWrites /\ outcome.answer = "error") => outcome.result = "returned"

------------------------------------------------------------------------------
(***************************************************************************)
(* The attendance rate on the dashboards: StudentDashboard, Children,      *)
(* ParentDashboard and Performance.  The signed-in student is the first    *)
(* Student row; the parent's children are the Student rows.                *)
(***************************************************************************)

\* The Student row of an id, as a list of at most one row.
ProfileOf(id) == SelectSeq(studentProfiles, LAMBDA student : student.id = id)

\* childIds: the children of the parent record.
childIds == [i \in 1..Len(studentProfiles) |-> studentProfiles[i].id]

\* StudentDashboard, fetchData: getStudent rejects when the student has no
\* row, and the catch leaves the state as it was.
fetchData ==
  /\ StudentDashboard.loading
  /\ StudentDashboard' =
       IF user.id = <<>> THEN StudentDashboard
       ELSE IF ProfileOf(user.id) = <<>> THEN [StudentDashboard EXCEPT !.loading = FALSE]
       ELSE [attendanceRate |-> calculateAttendanceStats(getAttendanceByStudent(user.id)).rate,
             studentProfile |-> ProfileOf(user.id),
             loading |-> FALSE]
  /\ user.id # <<>>
  /\ UNCHANGED <<varsPayments, varsAsync, varsLoaders, varsAuth, studentProfiles, Children, ParentDashboard, AdminFinance, varsAdmin,
                 varsStore, varsBackend, varsTeacher, varsViews,
                 varsStatus, varsStats, varsIds>>

\* StudentDashboard: attendance = attendanceRate || studentProfile?.attendance || 0
StudentDashboardAttendance ==
  IF StudentDashboard.attendanceRate # 0 THEN StudentDashboard.attendanceRate
  ELSE IF StudentDashboard.studentProfile # <<>>
          /\ StudentDashboard.studentProfile[1].attendance # 0
       THEN StudentDashboard.studentProfile[1].attendance
  ELSE 0

\* Children, loadChildren.
loadChildren ==
  /\ Children.loading
  /\ Children' =
       [children |-> studentProfiles,
        attendanceByStudent |->
          [i \in 1..Len(childIds) |->
             [id |-> childIds[i], records |-> getAttendanceByStudent(childIds[i])]],
        loading |-> FALSE]
  /\ UNCHANGED <<varsPayments, varsAsync, varsLoaders, varsAuth, studentProfiles, StudentDashboard, ParentDashboard, AdminFinance, varsAdmin,
                 varsStore, varsBackend, varsTeacher, varsViews,
                 varsStatus, varsStats, varsIds>>

\* Children: attendanceRate = stats.rate || child.attendance, with stats =
\* calculateAttendanceStats(attendanceByStudent[child.id] ?? []).
ChildrenAttendanceRate(child) ==
  LET mine == SelectSeq(Children.attendanceByStudent, LAMBDA entry : entry.id = child.id)
      childStats == calculateAttendanceStats(IF mine = <<>> THEN <<>> ELSE mine[1].records)
  IN IF childStats.rate # 0 THEN childStats.rate ELSE child.attendance

\* ParentDashboard, loadData: rateMap.set(id, stats.rate) for every child id.
ParentDashboardLoadData ==
  /\ ParentDashboard.loading
  /\ ParentDashboard' =
       [children |-> studentProfiles,
        attendanceRates |->
          [i \in 1..Len(childIds) |->
             [id |-> childIds[i],
              rate |-> calculateAttendanceStats(getAttendanceByStudent(childIds[i])).rate]],
        loading |-> FALSE]
  /\ UNCHANGED <<varsPayments, varsAsync, varsLoaders, varsAuth, studentProfiles, StudentDashboard, Children, AdminFinance, varsAdmin,
                 varsStore, varsBackend, varsTeacher, varsViews,
                 varsStatus, varsStats, varsIds>>

\* ParentDashboard: attendanceRates.get(child.id) ?? child.attendance ?? 0
ParentDashboardRate(child) ==
  LET mine == SelectSeq(ParentDashboard.attendanceRates, LAMBDA entry : entry.id = child.id)
  IN IF mine # <<>> THEN mine[1].rate ELSE child.attendance

\* Performance: attendanceStats = calculateAttendanceStats(childAttendance)
attendanceStats == calculateAttendanceStats(Performance.childAttendance)

(***************************************************************************)
(* Specification SpecDashboards: the four pages load the attendance        *)
(* records of student s1, drawn from bounded lists, whose Student row      *)
(* carries a stored attendance value.                                      *)
(***************************************************************************)

\* Attendance records of the student.
MaxDashRecords == 3

DashRecords ==
  {[studentId |-> Chars("s1"), courseId |-> Chars("C1"), courseName |-> Chars("Math"),
    status |-> JSString(Chars(w))] : w \in {"present", "late", "absent", "unknown"}}

InitDashboards ==
  /\ PaymentsIdle
  /\ AsyncIdle
  /\ LoadersIdle
  /\ AuthIdle
  /\ user = [id |-> Chars("s1"), role |-> "student"]
  /\ courseTable = <<>>
  /\ studentTable = <<Chars("s1")>>
  /\ attendanceTable \in SeqsUpTo(DashRecords, MaxDashRecords)
  /\ gradeTable = <<>>
  /\ financeTable = <<>>
  /\ studentProfiles \in {<<[id |-> Chars("s1"), attendance |-> a]>> : a \in {0, 40, 95}}
  /\ StudentDashboard = [attendanceRate |-> 0, studentProfile |-> <<>>, loading |-> TRUE]
  /\ Children = [children |-> <<>>, attendanceByStudent |-> <<>>, loading |-> TRUE]
  /\ ParentDashboard = [children |-> <<>>, attendanceRates |-> <<>>, loading |-> TRUE]
  /\ FinancePageIdle /\ AdminIdle
  /\ StoreIdle /\ ViewsIdle /\ TeacherIdle
  /\ StatusIdle /\ StatsIdle /\ IdsIdle

NextDashboards ==
  \/ fetchData
  \/ loadChildren
  \/ ParentDashboardLoadData
  \/ \E child \in {Chars("s1")} : PerformanceLoadRecords(child)

SpecDashboards == InitDashboards /\ [][NextDashboards]_vars

\* C15: for a student with attendance records, each of the four pages that
\* has loaded shows calculateAttendanceStats(records).rate, also when it is
\* 0; the attendance value stored in the Student row is shown only for a
\* student without records.
C15_SameRateEverywhere ==
  \A s \in 1..Len(studentProfiles) :
    LET child == studentProfiles[s]
        rate == calculateAttendanceStats(getAttendanceByStudent(child.id)).rate
    IN getAttendanceByStudent(child.id) # <<>> =>
         /\ (~StudentDashboard.loading /\ user.id = child.id) =>
              StudentDashboardAttendance = rate
         /\ ~Children.loading => ChildrenAttendanceRate(child) = rate
         /\ ~ParentDashboard.loading => ParentDashboardRate(child) = rate
         /\ Performance.selectedChild = child.id => attendanceStats.rate = rate

\* The part of C15 that holds: ParentDashboard and Performance show the
\* rate, StudentDashboard and Children show it when it is not 0.
SameRateUnlessZero ==
  \A s \in 1..Len(studentProfiles) :
    LET child == studentProfiles[s]
        rate == calculateAttendanceStats(getAttendanceByStudent(child.id)).rate
    IN /\ (~StudentDashboard.loading /\ user.id = child.id /\ rate # 0) =>
            StudentDashboardAttendance = rate
       /\ (~Children.loading /\ rate # 0) => ChildrenAttendanceRate(child) = rate
       /\ ~ParentDashboard.loading => ParentDashboardRate(child) = rate
       /\ Performance.selectedChild = child.id => attendanceStats.rate = rate

(***************************************************************************)
(* Rosters and departments on the dashboards: TeacherDashboard,            *)
(* AdminDashboard, AdminReports, AdminCourses and getStudentsByCourseId    *)
(* read the rows of the courses table as getCourses returns them.          *)
(***************************************************************************)

\* x || y takes y for these values of x.
Falsy(v) ==
  \/ v.t \in {"null", "undefined"}
  \/ v.t = "string" /\ v.s = <<>>
  \/ v.t = "number" /\ v.n = 0
  \/ v.t = "boolean" /\ ~v.b

\* String.prototype.slice(0, 2)
SliceTwo(s) == IF Len(s) <= 2 THEN s ELSE SubSeq(s, 1, 2)

IsLetter(c) ==
  \E k \in 1..Len(UpperCase) : SubSeq(UpperCase, k, k) = c \/ SubSeq(LowerCase, k, k) = c

LineTerminators == {"\n", "\r"}

\* code.replace(/[^A-Za-z].*/, ''): the first character that is no letter is
\* removed with what follows it up to the end of its line.
ReplaceFromNonLetter(s) ==
  LET stops == {i \in 1..Len(s) : ~IsLetter(s[i])}
  IN IF stops = {} THEN s
     ELSE LET i == CHOOSE i \in stops : \A j \in stops : i <= j
              ends == {j \in (i + 1)..Len(s) : s[j] \in LineTerminators}
              j == IF ends = {} THEN Len(s) + 1
                   ELSE CHOOSE j \in ends : \A k \in ends : j <= k
          IN SubSeq(s, 1, i - 1) \o SubSeq(s, j, Len(s))

\* The outcome of a render computation: its value, or a TypeError thrown.
Computed(value) == [threw |-> FALSE, value |-> value]
TypeErrorThrown == [threw |-> TRUE, value |-> <<>>]

\* TeacherDashboard loadData: the teacher's rows of getCourses() and the
\* grades of these courses.
TeacherDashboardLoadData ==
  /\ TeacherDashboard.loading
  /\ TeacherDashboard' =
       IF user.id = <<>> THEN [courses |-> <<>>, grades |-> <<>>, loading |-> FALSE]
       ELSE LET teacherCourses == SelectSeq(courseTable,
                                            LAMBDA course : course.teacherId = user.id)
            IN [courses |-> teacherCourses,
                grades |-> getGradesByCourseIds([i \in 1..Len(teacherCourses) |->
                                                   teacherCourses[i].id]),
                loading |-> FALSE]
  /\ UNCHANGED <<varsPayments, varsAsync, varsLoaders, varsAuth, AdminDashboard, AdminReports, AdminCourses, courseStudents,
                 AdminFinance, varsDashboards, varsStore, varsBackend, varsTeacher,
                 varsViews, varsStatus, varsStats, varsIds>>

\* (course.studentIds || []).forEach / .filter: a string that is not empty has
\* neither method.
TeacherRosterThrows(course) == ~Falsy(course.studentIds) /\ course.studentIds.t # "array"

TeacherRoster(course) ==
  IF course.studentIds.t = "array" THEN course.studentIds.items ELSE <<>>

\* roster.filter((id) => !gradedStudents.has(id)).length
MissingGrades(course, grades) ==
  Len(SelectSeq(TeacherRoster(course),
                LAMBDA id : ~\E g \in 1..Len(grades) :
                               /\ grades[g].courseId = course.id
                               /\ JSString(grades[g].studentId) = id))

RECURSIVE PendingCount(_, _)
PendingCount(courses, grades) ==
  IF courses = <<>> THEN 0
  ELSE MissingGrades(Head(courses), grades) + PendingCount(Tail(courses), grades)

\* TeacherDashboard useMemo: totalStudents and pendingGrades.
TeacherDashboardMemo ==
  LET courses == TeacherDashboard.courses
  IN IF \E i \in 1..Len(courses) : TeacherRosterThrows(courses[i]) THEN TypeErrorThrown
     ELSE Computed([totalStudents |->
                      Cardinality(UNION {Range(TeacherRoster(courses[i])) : i \in 1..Len(courses)}),
                    pendingGrades |-> PendingCount(courses, TeacherDashboard.grades)])

\* AdminDashboard loadData: every row of getCourses().
AdminDashboardLoadData ==
  /\ AdminDashboard.loading
  /\ AdminDashboard' = [courses |-> courseTable, loading |-> FALSE]
  /\ UNCHANGED <<varsPayments, varsAsync, varsLoaders, varsAuth, TeacherDashboard, AdminReports, AdminCourses, courseStudents,
                 AdminFinance, varsDashboards, varsStore, varsBackend, varsTeacher,
                 varsViews, varsStatus, varsStats, varsIds>>

\* course.studentIds?.forEach and (course.studentIds ?? []).forEach: only null
\* and undefined are skipped, and only an array has forEach.
OptionalRosterThrows(course) == course.studentIds.t \notin {"array", "null", "undefined"}

OptionalRoster(course) ==
  IF course.studentIds.t = "array" THEN course.studentIds.items ELSE <<>>

\* const dept = course.code.slice(0, 2)
AdminDashboardDept(course) == SliceTwo(course.code)

\* One entry of departmentSummary.
DepartmentEntry(courses, name) ==
  LET members == SelectSeq(courses, LAMBDA course : AdminDashboardDept(course) = name)
  IN [name |-> name,
      students |-> Cardinality(UNION {Range(OptionalRoster(members[i])) : i \in 1..Len(members)}),
      teachers |-> Cardinality({members[i].teacherId : i \in 1..Len(members)}),
      courses |-> Len(members)]

\* AdminDashboard departments and departmentSummary: Object.entries lists the
\* keys in the order the courses introduced them.
departmentSummary ==
  LET courses == AdminDashboard.courses
      names == Unique([i \in 1..Len(courses) |-> AdminDashboardDept(courses[i])])
  IN IF \E i \in 1..Len(courses) : OptionalRosterThrows(courses[i]) THEN TypeErrorThrown
     ELSE Computed([k \in 1..Len(names) |-> DepartmentEntry(courses, names[k])])

\* AdminReports loadData: every row of getCourses().
AdminReportsLoadData ==
  /\ AdminReports.loading
  /\ AdminReports' = [courses |-> courseTable, loading |-> FALSE]
  /\ UNCHANGED <<varsPayments, varsAsync, varsLoaders, varsAuth, TeacherDashboard, AdminDashboard, AdminCourses, courseStudents,
                 AdminFinance, varsDashboards, varsStore, varsBackend, varsTeacher,
                 varsViews, varsStatus, varsStats, varsIds>>

\* const dept = (course.code?.replace(/[^A-Za-z].*/, '') || 'GEN').toUpperCase()
AdminReportsDept(course) ==
  LET letters == ReplaceFromNonLetter(course.code)
  IN toUpperCase(IF letters = <<>> THEN Chars("GEN") ELSE letters)

\* AdminReports departmentPerformance: the names of the departments, each
\* once. (Their order, by localeCompare, is not modelled.)
departmentPerformance ==
  LET courses == AdminReports.courses
  IN IF \E i \in 1..Len(courses) : OptionalRosterThrows(courses[i]) THEN TypeErrorThrown
     ELSE Computed({AdminReportsDept(courses[i]) : i \in 1..Len(courses)})

\* AdminCourses: useState([...store.courses]) when the page mounts.
AdminCoursesMount ==
  /\ AdminCourses.courses = <<>>
  /\ store.courses # <<>>
  /\ AdminCourses' = [AdminCourses EXCEPT !.courses = store.courses]
  /\ UNCHANGED <<varsPayments, varsAsync, varsLoaders, varsAuth, TeacherDashboard, AdminDashboard, AdminReports, courseStudents,
                 AdminFinance, varsDashboards, varsStore, varsBackend, varsTeacher,
                 varsViews, varsStatus, varsStats, varsIds>>

DeptFilters == {"all", "cs", "is", "da", "other"}

setDeptFilter(filter) ==
  /\ AdminCourses.courses # <<>>
  /\ AdminCourses' = [AdminCourses EXCEPT !.deptFilter = filter]
  /\ UNCHANGED <<varsPayments, varsAsync, varsLoaders, varsAuth, TeacherDashboard, AdminDashboard, AdminReports, courseStudents,
                 AdminFinance, varsDashboards, varsStore, varsBackend, varsTeacher,
                 varsViews, varsStatus, varsStats, varsIds>>

\* const prefix = course.code?.slice(0, 2).toLowerCase() || ''
AdminCoursesPrefix(course) == toLowerCase(SliceTwo(course.code))

\* The predicate of filteredCourses.
PassesDeptFilter(course, filter) ==
  IF filter = "all" THEN TRUE
  ELSE IF filter = "cs" THEN AdminCoursesPrefix(course) = Chars("cs")
  ELSE IF filter = "is" THEN AdminCoursesPrefix(course) = Chars("is")
  ELSE IF filter = "da" THEN AdminCoursesPrefix(course) = Chars("da")
  ELSE AdminCoursesPrefix(course) \notin {Chars("cs"), Chars("is"), Chars("da")}

filteredCourses ==
  SelectSeq(AdminCourses.courses, LAMBDA course : PassesDeptFilter(course, AdminCourses.deptFilter))

\* getStudentsByCourseId(courseId): the profiles of the ids of the course row,
\* none when the studentIds of the row is no array.
getStudentsByCourseId(courseId) ==
  /\ courseStudents.courseId = <<>>
  /\ courseStudents' =
       LET rows == SelectSeq(courseTable, LAMBDA course : course.id = courseId)
           studentIds == IF rows # <<>> /\ rows[1].studentIds.t = "array"
                         THEN rows[1].studentIds.items ELSE <<>>
       IN [courseId |-> courseId,
           students |-> IF studentIds = <<>> THEN <<>>
                        ELSE SelectSeq(studentTable,
                                       LAMBDA id : Includes(studentIds, JSString(id)))]
  /\ UNCHANGED <<varsPayments, varsAsync, varsLoaders, varsAuth, TeacherDashboard, AdminDashboard, AdminReports, AdminCourses,
                 AdminFinance, varsDashboards, varsStore, varsBackend, varsTeacher,
                 varsViews, varsStatus, varsStats, varsIds>>

\* The same two ids as a bare array, as a JSON array and as a delimited string.
RosterEncodings ==
  {JSArray(<<JSString(Chars("s1")), JSString(Chars("s2"))>>),
   JSString(Chars("[\"s1\",\"s2\"]")),
   JSString(Chars("s1,s2"))}

CourseCodes == {Chars("CS101"), Chars("cs101"), Chars("MATH101"), Chars("IS7")}

MaxAdminGrades == 2

AdminGradeRecords ==
  {[studentId |-> s, courseId |-> c, score |-> 8, maxScore |-> 10]
     : s \in {Chars("s1"), Chars("s2")}, c \in {Chars("C1"), Chars("C2")}}

AdminCourseTables ==
  {<<[id |-> Chars("C1"), name |-> Chars("Intro"), teacherId |-> Chars("t1"),
      code |-> code, studentIds |-> declared],
     [id |-> Chars("C2"), name |-> Chars("Systems"), teacherId |-> Chars("t1"),
      code |-> Chars("CS202"),
      studentIds |-> JSArray(<<JSString(Chars("s2")), JSString(Chars("s3"))>>)]>>
     : code \in CourseCodes, declared \in RosterEncodings}

InitAdmin ==
  /\ PaymentsIdle
  /\ AsyncIdle
  /\ LoadersIdle
  /\ AuthIdle
  /\ user = [id |-> Chars("t1"), role |-> "teacher"]
  /\ courseTable \in AdminCourseTables
  /\ studentTable = <<Chars("s1"), Chars("s2"), Chars("s3")>>
  /\ attendanceTable = <<>>
  /\ gradeTable \in SeqsUpTo(AdminGradeRecords, MaxAdminGrades)
  /\ financeTable = <<>>
  /\ store = [EmptyStore EXCEPT !.courses = courseTable]
  /\ tables = store
  /\ outcome = NoCall
  /\ writeCalls = 0
  /\ FinancePageIdle /\ DashboardsIdle /\ AdminIdle
  /\ ViewsIdle /\ TeacherIdle
  /\ StatusIdle /\ StatsIdle /\ IdsIdle

NextAdmin ==
  \/ TeacherDashboardLoadData
  \/ AdminDashboardLoadData
  \/ AdminReportsLoadData
  \/ AdminCoursesMount
  \/ \E filter \in DeptFilters : setDeptFilter(filter)
  \/ \E courseId \in {Chars("C1"), Chars("C2")} : getStudentsByCourseId(courseId)

SpecAdmin == InitAdmin /\ [][NextAdmin]_vars

\* What normalizeStudentIds makes of the studentIds of a course.
NormalizedRoster(course) == normalizeStudentIds(course.studentIds).ids

NormalizedTotal(courses) ==
  Cardinality(UNION {Range(NormalizedRoster(courses[i])) : i \in 1..Len(courses)})

NormalizedPending(courses, grades) ==
  Len(SelectSeq(Flat([i \in 1..Len(courses) |->
                        [k \in 1..Len(NormalizedRoster(courses[i])) |->
                           [courseId |-> courses[i].id,
                            studentId |-> NormalizedRoster(courses[i])[k]]]]),
                LAMBDA pair : ~\E g \in 1..Len(grades) :
                                 /\ grades[g].courseId = pair.courseId
                                 /\ grades[g].studentId = pair.studentId))

NormalizedRosterOf(courseId) ==
  Flat([i \in 1..Len(courseTable) |->
          IF courseTable[i].id = courseId THEN NormalizedRoster(courseTable[i]) ELSE <<>>])

TeacherDashboardNormalized ==
  /\ ~TeacherDashboardMemo.threw
  /\ TeacherDashboardMemo.value.totalStudents = NormalizedTotal(TeacherDashboard.courses)
  /\ TeacherDashboardMemo.value.pendingGrades =
       NormalizedPending(TeacherDashboard.courses, TeacherDashboard.grades)

AdminDashboardNormalized ==
  /\ ~departmentSummary.threw
  /\ \A k \in 1..Len(departmentSummary.value) :
       departmentSummary.value[k].students =
         NormalizedTotal(SelectSeq(AdminDashboard.courses,
                                   LAMBDA course : AdminDashboardDept(course) =
                                                     departmentSummary.value[k].name))

CourseStudentsNormalized ==
  courseStudents.courseId # <<>> =>
    courseStudents.students = getStudentsByIds(NormalizedRosterOf(courseStudents.courseId))

\* C16: whichever of the three encodings the studentIds of a course arrive in,
\* the TeacherDashboard totals and pending count, the AdminDashboard department
\* summary and getStudentsByCourseId work on the ids normalizeStudentIds reads
\* from the field; none throws and none takes the roster for empty.
C16_NormalizedOnRead ==
  /\ ~TeacherDashboard.loading => TeacherDashboardNormalized
  /\ ~AdminDashboard.loading => AdminDashboardNormalized
  /\ CourseStudentsNormalized

BareArrays == \A i \in 1..Len(courseTable) : courseTable[i].studentIds.t = "array"

\* The three consumers agree with normalizeStudentIds on rosters that arrive
\* as bare arrays.
NormalizedOnBareArrays == BareArrays => C16_NormalizedOnRead

\* The department of a course as the specification derives it.
DepartmentKey(course) == toUpperCase(SliceTwo(course.code))

AdminDashboardBuckets ==
  ~departmentSummary.threw =>
    \A i \in 1..Len(AdminDashboard.courses) :
      LET course == AdminDashboard.courses[i]
          entries == SelectSeq(departmentSummary.value,
                               LAMBDA entry : toUpperCase(entry.name) = DepartmentKey(course))
      IN Len(entries) = 1 /\ entries[1].name = DepartmentKey(course)

AdminReportsBuckets ==
  \A i \in 1..Len(AdminReports.courses) :
    AdminReportsDept(AdminReports.courses[i]) = DepartmentKey(AdminReports.courses[i])

AdminCoursesBuckets ==
  \A i \in 1..Len(AdminCourses.courses) :
    LET course == AdminCourses.courses[i]
    IN AdminCourses.deptFilter \in {"cs", "is", "da"} =>
         (Includes(filteredCourses, course) <=>
            DepartmentKey(course) = toUpperCase(Chars(AdminCourses.deptFilter)))

\* C17: a course is counted in one department, named by the upper-cased first
\* two characters of its code, on the AdminDashboard summary, in the
\* AdminReports department performance and under the AdminCourses filter.
C17_DepartmentBuckets ==
  /\ ~AdminDashboard.loading => AdminDashboardBuckets
  /\ ~AdminReports.loading => AdminReportsBuckets
  /\ AdminCoursesBuckets

TwoLetterCodes ==
  \A i \in 1..Len(courseTable) :
    LET code == courseTable[i].code
    IN /\ Len(code) > 2
       /\ code[1] \in Range(Chars(UpperCase)) /\ code[2] \in Range(Chars(UpperCase))
       /\ ~IsLetter(code[3])

\* The three pages agree on codes made of two capital letters and a number.
BucketsOnTwoLetterCodes == TwoLetterCodes => C17_DepartmentBuckets

(***************************************************************************)
(* Letter bands of StudentResults.                                         *)
(***************************************************************************)

\* The integer part of a finite number that is not negative; 2^20 stands for
\* the numbers of 2^20 and more.
IntegerPart(a) ==
  LET digits == Len(a.m) + a.e
  IN IF digits <= 0 THEN 0
     ELSE IF digits > 20 THEN Pow2(20)
     ELSE IF a.e >= 0 THEN NatOfBits(a.m \o Zeros(a.e))
     ELSE NatOfBits(SubSeq(a.m, 1, digits))

\* a >= n for a number a that is not negative and a natural number n below
\* 2^20: false for NaN.
GreaterOrEqual(a, n) ==
  IF a.k = "NaN" THEN FALSE
  ELSE IF a.k = "Infinity" THEN TRUE
  ELSE IntegerPart(a) >= n

\* a < n, likewise.
LessThan(a, n) ==
  IF a.k = "NaN" THEN FALSE
  ELSE IF a.k = "Infinity" THEN FALSE
  ELSE IntegerPart(a) < n

\* StudentResults, the Grade Distribution card: the letter of averageScore.
averageLetter ==
  IF GreaterOrEqual(averageScore, 90) THEN "A"
  ELSE IF GreaterOrEqual(averageScore, 80) THEN "B"
  ELSE IF GreaterOrEqual(averageScore, 70) THEN "C"
  ELSE IF GreaterOrEqual(averageScore, 60) THEN "D"
  ELSE "F"

letterGradeFrom91(grade) ==
  IF GreaterOrEqual(percentage(grade), 91) THEN "A"
  ELSE IF GreaterOrEqual(percentage(grade), 80) THEN "B"
  ELSE IF GreaterOrEqual(percentage(grade), 70) THEN "C"
  ELSE IF GreaterOrEqual(percentage(grade), 60) THEN "D"
  ELSE "F"

\* StudentResults, a row of the table: letterGrade of the row's percentage.
letterGrade(grade) ==
  IF GreaterOrEqual(percentage(grade), 90) THEN "A"
  ELSE IF GreaterOrEqual(percentage(grade), 80) THEN "B"
  ELSE IF GreaterOrEqual(percentage(grade), 70) THEN "C"
  ELSE IF GreaterOrEqual(percentage(grade), 60) THEN "D"
  ELSE "F"

MaxLetterGrades == 2

\* score and maxScore of the grades: on a threshold, next to one, between
\* two, and with a maxScore of 0 (NaN and Infinity).
LetterScores ==
  {<<90, 100>>, <<899, 1000>>, <<8, 10>>, <<799, 1000>>, <<7, 10>>, <<6, 10>>,
   <<599, 1000>>, <<100, 100>>, <<0, 0>>, <<5, 0>>}

LetterGradeRecords ==
  {[studentId |-> Chars("s1"), courseId |-> Chars("C1"), score |-> p[1], maxScore |-> p[2]]
     : p \in LetterScores}

InitLetters ==
  /\ PaymentsIdle
  /\ AsyncIdle
  /\ LoadersIdle
  /\ AuthIdle
  /\ user = [id |-> Chars("s1"), role |-> "student"]
  /\ courseTable = <<>> /\ studentTable = <<>> /\ attendanceTable = <<>>
  /\ gradeTable \in SeqsUpTo(LetterGradeRecords, MaxLetterGrades)
  /\ financeTable = <<>>
  /\ ViewsIdle /\ StoreIdle /\ PagesIdle /\ TeacherIdle
  /\ StatusIdle /\ StatsIdle /\ IdsIdle

NextLetters == StudentResultsLoad

SpecLetters == InitLetters /\ [][NextLetters]_vars

Letters == {"A", "B", "C", "D", "F"}

\* A letter is the band of a percentage: the percentage lies in the interval
\* of the letter, in none for F.
InBand(p, letter) ==
  /\ letter = "A" <=> GreaterOrEqual(p, 90)
  /\ letter = "B" <=> (GreaterOrEqual(p, 80) /\ LessThan(p, 90))
  /\ letter = "C" <=> (GreaterOrEqual(p, 70) /\ LessThan(p, 80))
  /\ letter = "D" <=> (GreaterOrEqual(p, 60) /\ LessThan(p, 70))

Bands(p) == {letter \in Letters : InBand(p, letter)}

\* C18: once StudentResults has loaded, the letter of every row is the band
\* of the row's percentage (A from 90, B from 80 to below 90, C from 70 to
\* below 80, D from 60 to below 70, F otherwise), and the letter of the
\* overall average is the band of averageScore, by the same thresholds.
C18_LetterBands ==
  ~StudentResults.loading =>
    /\ \A i \in 1..Len(StudentResults.grades) :
         Bands(percentage(StudentResults.grades[i])) = {letterGrade(StudentResults.grades[i])}
    /\ Bands(averageScore) = {averageLetter}

\* A loaded page with a row of exactly 90 percent lettered A and a row of
\* 89.9 percent lettered B.
C18_Witness ==
  /\ ~StudentResults.loading
  /\ \E i \in 1..Len(StudentResults.grades) :
       /\ percentage(StudentResults.grades[i]) = DOfNat(90)
       /\ letterGrade(StudentResults.grades[i]) = "A"
  /\ \E i \in 1..Len(StudentResults.grades) :
       /\ StudentResults.grades[i].score = 899
       /\ letterGrade(StudentResults.grades[i]) = "B"

(***************************************************************************)
(* groupAttendanceByCourse.                                                *)
(***************************************************************************)

\* The outcome of grouping: the groups as a function from course name to
\* the records pushed to it, or a TypeError thrown.
Grouped(groups) == [threw |-> FALSE, groups |-> groups]
GroupingThrew == [threw |-> TRUE, groups |-> <<>>]

\* One turn of records.forEach: a record without a course name is passed
\* over; grouped is a plain object literal, so a name that Object.prototype
\* holds reads as an inherited value, which is truthy and has no push.
GroupStep(acc, rec) ==
  IF acc.threw THEN acc
  ELSE IF rec.courseName = <<>> THEN acc
  ELSE IF rec.courseName \in DOMAIN acc.groups
  THEN Grouped([acc.groups EXCEPT ![rec.courseName] = Append(@, rec)])
  ELSE IF rec.courseName \in ObjectPrototypeKeys THEN GroupingThrew
  ELSE Grouped([name \in DOMAIN acc.groups \cup {rec.courseName} |->
                  IF name = rec.courseName THEN <<rec>> ELSE acc.groups[name]])

RECURSIVE GroupFrom(_, _)
GroupFrom(acc, recs) ==
  IF recs = <<>> THEN acc ELSE GroupFrom(GroupStep(acc, Head(recs)), Tail(recs))

\* groupAttendanceByCourse(records)
groupAttendanceByCourse(recs) == GroupFrom(Grouped(<<>>), recs)

MaxGroupRecords == 3

\* Records of two courses, without a course name, and of a course named
\* like a property of Object.prototype.
GroupRecords ==
  {[studentId |-> s, courseName |-> Chars(name), status |-> JSString(Chars("present"))]
     : s \in {Chars("s1"), Chars("s2")},
       name \in {"Math", "Science", "", "constructor"}}

InitGroups ==
  /\ PaymentsIdle
  /\ AsyncIdle
  /\ LoadersIdle
  /\ AuthIdle
  /\ records \in SeqsUpTo(GroupRecords, MaxGroupRecords)
  /\ stats = <<>>
  /\ grouped = <<>>
  /\ StatusIdle /\ IdsIdle /\ BackendIdle /\ TeacherIdle /\ ViewsIdle
  /\ StoreIdle /\ PagesIdle

Group ==
  /\ grouped = <<>>
  /\ grouped' = <<groupAttendanceByCourse(records)>>
  /\ UNCHANGED <<varsPayments, varsAsync, varsLoaders, varsAuth, records, stats, varsStatus, varsIds, varsBackend, varsStore, varsPages,
                 varsTeacher, varsViews>>

NextGroups == Group

SpecGroups == InitGroups /\ [][NextGroups]_vars

RECURSIVE SizeOfGroups(_, _)
SizeOfGroups(groups, names) ==
  IF names = {} THEN 0
  ELSE LET name == CHOOSE name \in names : TRUE
       IN Len(groups[name]) + SizeOfGroups(groups, names \ {name})

IsPartition(result) ==
  /\ ~result.threw
  /\ \A i \in 1..Len(records) : records[i].courseName \in DOMAIN result.groups
  /\ \A name \in DOMAIN result.groups :
       result.groups[name] = SelectSeq(records, LAMBDA rec : rec.courseName = name)
  /\ SizeOfGroups(result.groups, DOMAIN result.groups) = Len(records)

\* C19: groupAttendanceByCourse returns a partition of its input: every
\* record is in the group of its course name, a group holds the records of
\* its name and no other, in input order, and the sizes of the groups add up
\* to the length of the input.
C19_PurePartition == grouped # <<>> => IsPartition(grouped[1])

Named ==
  \A i \in 1..Len(records) :
    records[i].courseName # <<>> /\ records[i].courseName \notin ObjectPrototypeKeys

\* The records that have a course name which is no property of
\* Object.prototype are partitioned.
PartitionOfNamed == (grouped # <<>> /\ Named) => IsPartition(grouped[1])

(***************************************************************************)
(* The declared rosters after the reconciliation of the teacher pages.     *)
(***************************************************************************)

\* Every course of a page's course list carries its declared roster.
DeclaredKept(courses) ==
  \A i \in 1..Len(courses) : courses[i].studentIds = DeclaredOf(courses[i].id)

\* C21: after the reconciliation of TeacherStudents, TeacherGrades and
\* TeacherAttendance the studentIds of every course of the page's course list
\* is the declared roster of the course; no id seen only in a grade or an
\* attendance record has been added to it.
C21_DeclaredRosterKept ==
  /\ ~TeacherStudents.loading => DeclaredKept(TeacherStudents.courses)
  /\ ~TeacherGrades.loading => DeclaredKept(TeacherGrades.courses)
  /\ ~TeacherAttendance.loading => DeclaredKept(TeacherAttendance.courses)

\* TeacherGrades and TeacherAttendance copy the declared roster before they
\* push to it.
DeclaredKeptByCopies ==
  /\ ~TeacherGrades.loading => DeclaredKept(TeacherGrades.courses)
  /\ ~TeacherAttendance.loading => DeclaredKept(TeacherAttendance.courses)

(***************************************************************************)
(* The auth provider (authContext.tsx) and the route gates (App.tsx).      *)
(* A profile is [id, email, role]; its name plays no part.  The calls of   *)
(* the provider run concurrently; each await is a step.                    *)
(***************************************************************************)

Roles == {"student", "teacher", "parent", "admin"}

defaultRole == "student"

Email == Chars("a@x")

\* What the end of ensureProfile means to its caller: syncUserFromSession
\* sets the profile, or null when ensureProfile threw; register sets the
\* profile and leaves the user alone when it threw.
UserAfter(c, ended) == IF c = "register" /\ ended = <<>> THEN authUser ELSE ended

\* finally { setLoading(false) } of bootstrapSession and of the listener.
LoadingAfter(c) ==
  IF c \in {"bootstrapSession", "onAuthStateChange"} THEN FALSE ELSE authLoading

\* The caller's task when its call is over; login resolves to true whatever
\* syncUserFromSession did, register to false when ensureProfile threw.
TaskAfter(c, ended) ==
  [authTasks[c] EXCEPT
     !.pc = "done",
     !.returned = ended,
     !.result = IF c = "login" THEN "true"
                ELSE IF c = "register" THEN (IF ended = <<>> THEN "false" ELSE "true")
                ELSE "none",
     !.seen = UserAfter(c, ended)]

\* The call of a caller ends: ensureProfile returned <<profile>> or threw (<<>>).
Ended(c, ended) ==
  /\ authUser' = UserAfter(c, ended)
  /\ authLoading' = LoadingAfter(c)
  /\ authTasks' = [authTasks EXCEPT ![c] = TaskAfter(c, ended)]

AuthFrame ==
  UNCHANGED <<varsPayments, varsAsync, varsLoaders, user, courseTable, attendanceTable, gradeTable, financeTable, varsStore, varsPages, varsTeacher, varsViews,
              varsStatus, varsStats, varsIds>>

\* syncUserFromSession(session) up to its first await.
SyncStarted(c, given) ==
  IF given = <<>>
  THEN /\ authUser' = <<>>
       /\ authLoading' = LoadingAfter(c)
       /\ authTasks' = [authTasks EXCEPT ![c] = [@ EXCEPT !.pc = "done", !.seen = <<>>,
                                                  !.result = IF c = "login" THEN "true"
                                                             ELSE "none"]]
  ELSE /\ authTasks' = [authTasks EXCEPT ![c] = [@ EXCEPT !.pc = "getUserByEmail",
                                                  !.email = given[1].email,
                                                  !.role = given[1].role]]
       /\ UNCHANGED <<authUser, authLoading>>

\* The provider mounts: bootstrapSession awaits supabase.auth.getSession().
bootstrapSession ==
  /\ authTasks["bootstrapSession"].pc = "idle"
  /\ authTasks' = [authTasks EXCEPT !["bootstrapSession"].pc = "getSession"]
  /\ UNCHANGED <<authUser, authLoading, session, usersTable, uuids, studentTable>>
  /\ AuthFrame

\* supabase calls the onAuthStateChange listener with its session.
onAuthStateChange ==
  /\ authTasks["onAuthStateChange"].pc = "idle"
  /\ authTasks["bootstrapSession"].pc # "idle"
  /\ SyncStarted("onAuthStateChange", session)
  /\ UNCHANGED <<session, usersTable, uuids, studentTable>>
  /\ AuthFrame

\* login(email, password): signInWithPassword, then refreshProfile.  The Login
\* and Register forms are two pages: one of them is submitted.
login(answer) ==
  /\ authTasks["login"].pc = "idle"
  /\ authTasks["register"].pc = "idle"
  /\ authTasks["bootstrapSession"].pc # "idle"
  /\ IF answer = "error"
     THEN /\ authTasks' = [authTasks EXCEPT !["login"] =
                             [@ EXCEPT !.pc = "done", !.result = "false", !.seen = authUser]]
          /\ UNCHANGED session
     ELSE /\ authTasks' = [authTasks EXCEPT !["login"].pc = "getSession"]
          /\ session' = <<[email |-> Email, role |-> ""]>>
  /\ UNCHANGED <<authUser, authLoading, usersTable, uuids, studentTable>>
  /\ AuthFrame

\* getSession() of bootstrapSession and of refreshProfile answers, and
\* syncUserFromSession starts.
getSession(c) ==
  /\ authTasks[c].pc = "getSession"
  /\ SyncStarted(c, session)
  /\ UNCHANGED <<session, usersTable, uuids, studentTable>>
  /\ AuthFrame

\* register(email, password, name, role): signUp, then ensureProfile.  signUp
\* opens a session unless the account has to be confirmed first.
register(role, answer, confirmed) ==
  /\ authTasks["register"].pc = "idle"
  /\ authTasks["login"].pc = "idle"
  /\ authTasks["bootstrapSession"].pc # "idle"
  /\ IF answer = "error"
     THEN /\ authTasks' = [authTasks EXCEPT !["register"] =
                             [@ EXCEPT !.pc = "done", !.result = "false", !.seen = authUser]]
          /\ UNCHANGED session
     ELSE /\ authTasks' = [authTasks EXCEPT !["register"] =
                             [@ EXCEPT !.pc = "getUserByEmail", !.email = Email, !.role = role]]
          /\ session' = IF confirmed THEN <<[email |-> Email, role |-> role]>> ELSE session
  /\ UNCHANGED <<authUser, authLoading, usersTable, uuids, studentTable>>
  /\ AuthFrame

\* ensureProfile: getUserByEmail answers.  maybeSingle() answers with an error
\* when more than one row has the email.
getUserByEmail(c, answer) ==
  /\ authTasks[c].pc = "getUserByEmail"
  /\ LET rows == SelectSeq(usersTable, LAMBDA row : row.email = authTasks[c].email)
     IN IF answer = "error" \/ Len(rows) > 1
        THEN Ended(c, <<>>) /\ UNCHANGED uuids
        ELSE IF rows # <<>>
        THEN Ended(c, <<rows[1]>>) /\ UNCHANGED uuids
        ELSE /\ authTasks' =
                  [authTasks EXCEPT ![c] =
                     [@ EXCEPT !.pc = "insertUser",
                               !.profile = <<[id |-> <<"u">> \o NatToString(uuids + 1),
                                              email |-> authTasks[c].email,
                                              role |-> IF authTasks[c].role = ""
                                                       THEN defaultRole
                                                       ELSE authTasks[c].role]>>]]
             /\ uuids' = uuids + 1
             /\ UNCHANGED <<authUser, authLoading>>
  /\ UNCHANGED <<session, usersTable, studentTable>>
  /\ AuthFrame

\* ensureProfile: the insert into Users answers.
insertUser(c, answer) ==
  /\ authTasks[c].pc = "insertUser"
  /\ IF answer = "error"
     THEN Ended(c, <<>>) /\ UNCHANGED usersTable
     ELSE /\ usersTable' = Append(usersTable, authTasks[c].profile[1])
          /\ IF authTasks[c].profile[1].role = "student"
             THEN /\ authTasks' = [authTasks EXCEPT ![c].pc = "insertStudent"]
                  /\ UNCHANGED <<authUser, authLoading>>
             ELSE Ended(c, authTasks[c].profile)
  /\ UNCHANGED <<session, uuids, studentTable>>
  /\ AuthFrame

\* ensureProfile: the insert into Students answers; its error is not read.
insertStudent(c, answer) ==
  /\ authTasks[c].pc = "insertStudent"
  /\ studentTable' = IF answer = "error" THEN studentTable
                     ELSE Append(studentTable, authTasks[c].profile[1].id)
  /\ Ended(c, authTasks[c].profile)
  /\ UNCHANGED <<session, usersTable, uuids>>
  /\ AuthFrame

\* logout(), from the sidebar of a signed-in user.
logout ==
  /\ authUser # <<>>
  /\ session' = <<>>
  /\ authUser' = <<>>
  /\ authLoading' = FALSE
  /\ UNCHANGED <<authTasks, usersTable, uuids, studentTable>>
  /\ AuthFrame

ProtectedRouteAnyRole(roles) ==
  IF authLoading THEN "Loading..."
  ELSE IF authUser = <<>> THEN "/login"
  ELSE "children"

\* ProtectedRoute({children, roles}); roles is <<>> when the route gives none.
ProtectedRoute(roles) ==
  IF authLoading THEN "Loading..."
  ELSE IF authUser = <<>> THEN "/login"
  ELSE IF roles # <<>> /\ authUser[1].role \notin roles[1] THEN "/dashboard"
  ELSE "children"

\* DashboardRouter()
DashboardRouter ==
  IF authLoading THEN "Loading..."
  ELSE IF authUser = <<>> THEN "/login"
  ELSE IF authUser[1].role = "student" THEN "StudentDashboard"
  ELSE IF authUser[1].role = "teacher" THEN "TeacherDashboard"
  ELSE IF authUser[1].role = "parent" THEN "ParentDashboard"
  ELSE IF authUser[1].role = "admin" THEN "AdminDashboard"
  ELSE "/login"

\* The Users table holds no row, or the row of an account made earlier; a
\* student of Users may lack its row of Students.
InitAuth ==
  /\ PaymentsIdle
  /\ AsyncIdle
  /\ LoadersIdle
  /\ authUser = <<>> /\ authLoading = TRUE
  /\ session \in {<<>>, <<[email |-> Email, role |-> "teacher"]>>}
  /\ \/ usersTable = <<>> /\ studentTable = <<>>
     \/ /\ usersTable \in {<<[id |-> Chars("u0"), email |-> Email, role |-> role]>>
                             : role \in {"student", "teacher"}}
        /\ studentTable \in {<<>>, <<Chars("u0")>>}
        /\ studentTable # <<>> => usersTable[1].role = "student"
  /\ authTasks = [c \in AuthCallers |-> NoTask]
  /\ uuids = 0
  /\ user = [id |-> <<>>, role |-> "none"]
  /\ courseTable = <<>> /\ attendanceTable = <<>> /\ gradeTable = <<>> /\ financeTable = <<>>
  /\ TeacherIdle /\ ViewsIdle /\ StoreIdle /\ PagesIdle
  /\ StatusIdle /\ StatsIdle /\ IdsIdle

NextAuth ==
  \/ bootstrapSession
  \/ onAuthStateChange
  \/ \E answer \in Answers : login(answer)
  \/ \E c \in {"bootstrapSession", "login"} : getSession(c)
  \/ \E role \in {"student", "admin"}, answer \in Answers, confirmed \in BOOLEAN :
       register(role, answer, confirmed)
  \/ \E c \in AuthCallers, answer \in Answers : getUserByEmail(c, answer)
  \/ \E c \in AuthCallers, answer \in Answers : insertUser(c, answer)
  \/ \E c \in AuthCallers, answer \in Answers : insertStudent(c, answer)
  \/ logout

SpecAuth == InitAuth /\ [][NextAuth]_vars

\* The dashboard of a role.
DashboardOf(role) ==
  CASE role = "student" -> "StudentDashboard"
    [] role = "teacher" -> "TeacherDashboard"
    [] role = "parent" -> "ParentDashboard"
    [] role = "admin" -> "AdminDashboard"

\* C22: a page wrapped by ProtectedRoute with a roles list is rendered exactly
\* when the provider has finished loading, a user is present and the user's
\* role is in the list; once loading is over, no user gives a redirect to
\* /login and a user of another role a redirect to /dashboard, and
\* DashboardRouter renders the dashboard of the user's role.
C22_RouteGating ==
  /\ \A roles \in SUBSET Roles :
       /\ ProtectedRoute(<<roles>>) = "children"
            <=> (~authLoading /\ authUser # <<>> /\ authUser[1].role \in roles)
       /\ (~authLoading /\ authUser = <<>>) => ProtectedRoute(<<roles>>) = "/login"
       /\ (~authLoading /\ authUser # <<>> /\ authUser[1].role \notin roles)
            => ProtectedRoute(<<roles>>) = "/dashboard"
  /\ (~authLoading /\ authUser # <<>>) =>
       /\ authUser[1].role \in Roles
       /\ DashboardRouter = DashboardOf(authUser[1].role)
  /\ (~authLoading /\ authUser = <<>>) => DashboardRouter = "/login"

\* A teacher is signed in: a student page redirects to /dashboard, which
\* renders TeacherDashboard.
C22_Witness ==
  /\ ~authLoading /\ authUser # <<>>
  /\ authUser[1].role = "teacher"
  /\ ProtectedRoute(<<{"student"}>>) = "/dashboard"
  /\ ProtectedRoute(<<{"teacher"}>>) = "children"
  /\ DashboardRouter = "TeacherDashboard"

\* The calls of ensureProfile that returned a profile.
ReturnedProfiles == {authTasks[c].returned[1] : c \in {c \in AuthCallers : authTasks[c].returned # <<>>}}

HasUserRow(profile) == \E i \in 1..Len(usersTable) : usersTable[i].email = profile.email

\* C23: when ensureProfile has returned a profile, Users holds a row with its
\* email and, for a student, Students holds a row with its id.
C23_ProfileProvisioned ==
  \A profile \in ReturnedProfiles :
    /\ HasUserRow(profile)
    /\ profile.role = "student" => Includes(studentTable, profile.id)

\* The Users half of C23.
UsersRowProvisioned == \A profile \in ReturnedProfiles : HasUserRow(profile)

\* C26: whatever the interleaving of the ensureProfile calls for an email,
\* Users never holds two rows with the email, and the callers that got a
\* profile got the same id.
C26_OneProfilePerEmail ==
  /\ Cardinality({i \in 1..Len(usersTable) : usersTable[i].email = Email}) <= 1
  /\ \A p, q \in ReturnedProfiles : p.id = q.id

\* Calls that do not overlap agree: with one call of ensureProfile made, Users
\* holds one row of the email at most.
OneProfileWhenAlone ==
  Cardinality({c \in AuthCallers : authTasks[c].pc \notin {"idle", "getSession"}
                                     /\ authTasks[c].email # <<>>}) <= 1
    => Cardinality({i \in 1..Len(usersTable) : usersTable[i].email = Email}) <= 1

\* C27: when login has resolved to true the user of the context is the
\* profile of the account that signed in; when the sign-in was rejected login
\* has resolved to false and left the user as it was.
C27_LoginMeansUser ==
  /\ authTasks["login"].result = "true" =>
       /\ authTasks["login"].seen # <<>>
       /\ authTasks["login"].seen[1].email = Email
  /\ authTasks["login"].result = "false" => authTasks["login"].returned = <<>>

\* A login that resolved to true after its profile was loaded left that
\* profile as the user.
LoginWithProfile ==
  (authTasks["login"].result = "true" /\ authTasks["login"].returned # <<>>)
    => authTasks["login"].seen = authTasks["login"].returned

(***************************************************************************)
(* The loaders of the pages, step by step: the effect runs, the fetch is   *)
(* outstanding, the fetch resolves or rejects.  What a page holds is       *)
(* written "empty" or "data".                                              *)
(***************************************************************************)

\* The pages whose effect looks at the user id before it fetches.
ChecksUser == {"TeacherLessons", "Attendance", "TeacherAttendance", "TeacherGrades",
               "StudentDashboard"}

\* The effect of a page without a user id.  TeacherLessons calls setLessons([])
\* and returns, StudentDashboard's fetchData returns: neither touches loading.
\* Attendance calls setLoading(false); TeacherAttendance and TeacherGrades
\* empty their lists and call setLoading(false).
Skipped(page, loader) ==
  IF page \in {"TeacherLessons", "StudentDashboard"}
  THEN [loader EXCEPT !.phase = "skipped", !.shown = "empty"]
  ELSE [loader EXCEPT !.phase = "skipped", !.shown = "empty", !.loading = FALSE]

\* The start of a fetch: setLoading(true), which fetchData of StudentDashboard
\* leaves out.
Fetching(page, loader) ==
  [loader EXCEPT !.phase = "fetching",
                 !.loading = IF page = "StudentDashboard" THEN @ ELSE TRUE]

LoadersFrame ==
  UNCHANGED <<varsPayments, varsAsync, varsAuth, varsBackend, varsStore, varsPages, varsTeacher, varsViews,
              varsStatus, varsStats, varsIds>>

\* The page mounts and its effect runs.
Mount(page) ==
  /\ loaders[page].phase = "unmounted"
  /\ loaders' = [loaders EXCEPT ![page] =
                   IF page \in ChecksUser /\ user.id = <<>>
                   THEN Skipped(page, @) ELSE Fetching(page, @)]
  /\ LoadersFrame

\* The fetch resolves: the data is set, finally { setLoading(false) }.
Resolve(page) ==
  /\ loaders[page].phase = "fetching"
  /\ loaders' = [loaders EXCEPT ![page] =
                   [@ EXCEPT !.phase = "resolved", !.shown = "data", !.loading = FALSE]]
  /\ LoadersFrame

\* The pages whose catch block empties what the page shows (setRecords([]),
\* setGrades([]), setCourses([]), setRows([])); the catch of the others logs
\* and shows a toast.
CatchEmpties == {"TeacherAttendance", "TeacherGrades", "AdminDashboard", "AdminFinance"}

\* The fetch rejects: the catch block, finally { setLoading(false) }.
Reject(page) ==
  /\ loaders[page].phase = "fetching"
  /\ loaders' = [loaders EXCEPT ![page] =
                   [@ EXCEPT !.phase = "rejected",
                             !.shown = IF page \in CatchEmpties THEN "empty" ELSE @,
                             !.loading = FALSE]]
  /\ LoadersFrame

MaxRefreshes == 1

\* Attendance handleRefresh: loadAttendance(user.id) again.
handleRefresh ==
  /\ loaders["Attendance"].phase \in {"resolved", "rejected"}
  /\ loaders["Attendance"].refreshes < MaxRefreshes
  /\ user.id # <<>>
  /\ loaders' = [loaders EXCEPT !["Attendance"] =
                   [Fetching("Attendance", @) EXCEPT !.refreshes = @ + 1]]
  /\ LoadersFrame

InitLoaders ==
  /\ PaymentsIdle
  /\ AsyncIdle
  /\ user \in {[id |-> <<>>, role |-> "none"], [id |-> Chars("t1"), role |-> "teacher"]}
  /\ loaders = [page \in LoaderPages |-> Unmounted]
  /\ courseTable = <<>> /\ studentTable = <<>> /\ attendanceTable = <<>>
  /\ gradeTable = <<>> /\ financeTable = <<>>
  /\ AuthIdle /\ TeacherIdle /\ ViewsIdle /\ StoreIdle /\ PagesIdle
  /\ StatusIdle /\ StatsIdle /\ IdsIdle

NextLoaders ==
  \/ \E page \in LoaderPages : Mount(page)
  \/ \E page \in LoaderPages : Resolve(page)
  \/ \E page \in LoaderPages : Reject(page)
  \/ handleRefresh

\* A mounted page runs its effect, and a fetch settles.
SpecLoaders == InitLoaders /\ [][NextLoaders]_vars /\ WF_vars(NextLoaders)

\* C24: every load attempt of a page, whether its fetch resolves or rejects or
\* the load is skipped for want of a user id, is followed by a state where
\* the page's loading flag is false, and after a rejected fetch the page
\* shows its empty state.
C24_NoStuckLoading ==
  /\ \A page \in LoaderPages :
       [](loaders[page].phase # "unmounted" => <>(~loaders[page].loading))
  /\ [](\A page \in LoaderPages :
          loaders[page].phase = "rejected" => loaders[page].shown = "empty")

\* A fetch that was started is followed by loading false, and a first fetch
\* that rejects leaves the page empty.
FetchesSettle ==
  /\ \A page \in LoaderPages :
       [](loaders[page].phase = "fetching" => <>(~loaders[page].loading))
  /\ [](\A page \in LoaderPages :
          (loaders[page].phase = "rejected" /\ loaders[page].refreshes = 0)
            => loaders[page].shown = "empty")

(***************************************************************************)
(* Specification SpecPayments: payFee called again and again with amounts  *)
(* that are numbers >= 0, on a finance record whose due is                 *)
(* max(0, totalFee - scholarship - paid) at bootstrap.                     *)
(***************************************************************************)

\* due === Math.max(0, totalFee - scholarship - paid) on a record.
DueHolds(fin) ==
  StrictEquals(fin.due,
               MathMax(JSNumber(0), Minus(Minus(fin.totalFee, fin.scholarship), fin.paid)))

NonNegativeAmounts ==
  {amount \in Amounts \cup {JSNumber(0), JSNumber(800)} : amount.t = "number" /\ amount.n >= 0}

InitPayments ==
  /\ AsyncIdle /\ LoadersIdle /\ AuthIdle
  /\ \E fin \in {f \in FinanceRecords : DueHolds(f)} :
       /\ tables = [EmptyStore EXCEPT !.finances = <<fin>>]
       /\ store = [EmptyStore EXCEPT !.finances = <<fin>>]
       /\ payments = [initial |-> <<fin>>, applied |-> <<>>, total |-> JSNumber(0)]
  /\ outcome = NoCall
  /\ writeCalls = 0
  /\ PagesIdle /\ BackendIdle /\ TeacherIdle /\ ViewsIdle
  /\ StatusIdle /\ StatsIdle /\ IdsIdle

NextPayments ==
  \E studentId \in {Chars("s1"), Chars("s2")}, amount \in NonNegativeAmounts, answer \in Answers :
    payFee(studentId, amount, answer)

SpecPayments == InitPayments /\ [][NextPayments]_vars

\* The finance record of student s1 in the store.
Fin == store.finances[1]

SessionIds == {"A", "B"}

\* The row of the Finance table.
Persisted == tables.finances[1]

\* finance.totalFee - finance.scholarship - finance.paid on the page's record.
MaxPayable(finance) == Minus(Minus(finance.totalFee, finance.scholarship), finance.paid)

\* handlePayment, the amount: the whole balance for 'full', else
\* Math.max(0, Math.min(Number(input || 0), maxPayable)), entered the number
\* the prompt's text stands for (0 for a cancelled or empty prompt, NaN for
\* text that is no number).
AmountOf(mode, entered, finance) ==
  IF mode = "full" THEN MaxPayable(finance)
  ELSE MathMax(JSNumber(0), MathMin(entered, MaxPayable(finance)))

\* !amount || Number.isNaN(amount)
NoAmount(amount) == amount.t = "NaN" \/ amount.n = 0

\* handlePayment(mode) in session c up to the await inside payFee: the amount
\* is taken from the page's record, payFee changes the record of the
\* session's store and sends its paid and due.
handlePayment(c, mode, entered) ==
  /\ clients[c].pc = "idle"
  /\ LET amount == AmountOf(mode, entered, clients[c].finance)
         fin == Paid(clients[c].store, amount)
     IN clients' = [clients EXCEPT ![c] =
          IF NoAmount(amount)
          THEN [@ EXCEPT !.pc = "refused"]
          ELSE [@ EXCEPT !.pc = "updating",
                         !.store = fin,
                         !.applied = <<Applied(clients[c].store, amount)>>,
                         !.sent = <<[paid |-> Serialized(fin.paid),
                                     due |-> Serialized(fin.due)]>>]]
  /\ UNCHANGED <<fetches, AdminUsers, toasts, storeTasks, varsPayments, varsLoaders, varsAuth,
                 varsStore, varsPages, varsBackend, varsTeacher, varsViews,
                 varsStatus, varsStats, varsIds>>

\* The backend answers the update of session c, and payFee returns.
updateFinance(c, answer) ==
  /\ clients[c].pc = "updating"
  /\ tables' = IF answer = "ok"
               THEN [tables EXCEPT !.finances =
                       UpdateFinance(@, clients[c].store.id, clients[c].sent[1])]
               ELSE tables
  /\ clients' = [clients EXCEPT ![c].pc = "reloading"]
  /\ UNCHANGED <<fetches, AdminUsers, toasts, storeTasks, store, outcome, writeCalls,
                 varsPayments, varsLoaders, varsAuth, varsPages, varsBackend, varsTeacher,
                 varsViews, varsStatus, varsStats, varsIds>>

\* await loadFinance(finance.studentId): the page of session c shows the row
\* of the table.
reloadFinance(c) ==
  /\ clients[c].pc = "reloading"
  /\ clients' = [clients EXCEPT ![c].pc = "done", ![c].finance = Persisted]
  /\ UNCHANGED <<fetches, AdminUsers, toasts, storeTasks, varsPayments, varsLoaders, varsAuth,
                 varsStore, varsPages, varsBackend, varsTeacher, varsViews,
                 varsStatus, varsStats, varsIds>>

\* The rows both sessions start from: every field a number.
SessionRecords ==
  {fin \in FinanceRecords : fin.scholarship.t = "number" /\ fin.paid.t = "number"}

EnteredNumbers == {JSNumber(0), JSNumber(100), JSNumber(5000), JSNaN}

InitSessions ==
  /\ \E fin \in SessionRecords :
       /\ tables = [EmptyStore EXCEPT !.finances = <<fin>>]
       /\ clients = [c \in SessionIds |->
                       [pc |-> "idle", store |-> fin, finance |-> fin,
                        applied |-> <<>>, sent |-> <<>>]]
       /\ payments = [initial |-> <<fin>>, applied |-> <<>>, total |-> JSNumber(0)]
  /\ store = EmptyStore /\ outcome = NoCall /\ writeCalls = 0
  /\ fetches = <<>> /\ AdminUsers = [users |-> <<>>] /\ toasts = <<>> /\ storeTasks = <<>>
  /\ LoadersIdle /\ AuthIdle
  /\ PagesIdle /\ BackendIdle /\ TeacherIdle /\ ViewsIdle
  /\ StatusIdle /\ StatsIdle /\ IdsIdle

NextSessions ==
  \/ \E c \in SessionIds, mode \in {"full", "custom"}, entered \in EnteredNumbers :
       handlePayment(c, mode, entered)
  \/ \E c \in SessionIds, answer \in Answers : updateFinance(c, answer)
  \/ \E c \in SessionIds : reloadFinance(c)

SpecSessions == InitSessions /\ [][NextSessions]_vars

\* payFee of session c has returned.
PayFeeCompleted(c) == clients[c].pc \in {"reloading", "done"}

\* C25: once both sessions have completed payFee for the student, the
\* persisted paid is the initial paid plus the amounts the two calls
\* applied, and the persisted due is max(0, totalFee - scholarship -
\* persisted paid).
C25_NoLostPayment ==
  (\A c \in SessionIds : PayFeeCompleted(c)) =>
    /\ Persisted.paid = Plus(Plus(payments.initial[1].paid, clients["A"].applied[1]),
                             clients["B"].applied[1])
    /\ DueHolds(Persisted)

\* What holds: the persisted paid and due are those of the initial row or
\* those one session sent, and the persisted due fits the persisted paid.
PersistedIsOneWrite ==
  /\ \/ Persisted = payments.initial[1]
     \/ \E c \in SessionIds :
          /\ clients[c].sent # <<>>
          /\ Persisted.paid = clients[c].sent[1].paid
          /\ Persisted.due = clients[c].sent[1].due
          /\ Persisted.paid = Plus(payments.initial[1].paid, clients[c].applied[1])
  /\ DueHolds(Persisted)

(***************************************************************************)
(* Specification SpecPerformance: the parent switches the selected child   *)
(* of the Performance page while earlier loadRecords calls are waiting for *)
(* their two fetches.                                                      *)
(***************************************************************************)

MaxSelections == 3

\* The child selector's onClick, setSelectedChild(child.id), and the effect
\* on [selectedChild] that follows: loadRecords starts its two fetches.
\* Nothing ends or marks the calls that are still waiting.
setSelectedChild(child) ==
  /\ Performance.selectedChild # child
  /\ Len(fetches) < MaxSelections
  /\ Performance' = [Performance EXCEPT !.selectedChild = child]
  /\ fetches' = Append(fetches, [child |-> child, state |-> "outstanding"])
  /\ UNCHANGED <<clients, AdminUsers, toasts, storeTasks, varsPayments, varsLoaders, varsAuth,
                 AdminClasses, StudentResults, StudentFinance, varsBackend, varsStore,
                 varsPages, varsTeacher, varsStatus, varsStats, varsIds>>

\* Promise.all of call i resolves: setChildGrades(grades ?? []),
\* setChildAttendance(attendance ?? []), for the child the call was made for.
loadRecordsResolves(i) ==
  /\ fetches[i].state = "outstanding"
  /\ Performance' = [Performance EXCEPT
                       !.childGrades = getGradesByStudent(fetches[i].child),
                       !.childAttendance = getAttendanceByStudent(fetches[i].child)]
  /\ fetches' = [fetches EXCEPT ![i].state = "resolved"]
  /\ UNCHANGED <<clients, AdminUsers, toasts, storeTasks, varsPayments, varsLoaders, varsAuth,
                 AdminClasses, StudentResults, StudentFinance, varsBackend, varsStore,
                 varsPages, varsTeacher, varsStatus, varsStats, varsIds>>

\* Promise.all of call i rejects: the catch block empties both lists.
loadRecordsRejects(i) ==
  /\ fetches[i].state = "outstanding"
  /\ Performance' = [Performance EXCEPT !.childGrades = <<>>, !.childAttendance = <<>>]
  /\ fetches' = [fetches EXCEPT ![i].state = "rejected"]
  /\ UNCHANGED <<clients, AdminUsers, toasts, storeTasks, varsPayments, varsLoaders, varsAuth,
                 AdminClasses, StudentResults, StudentFinance, varsBackend, varsStore,
                 varsPages, varsTeacher, varsStatus, varsStats, varsIds>>

\* The children of the parent; each has a grade, s1 and s2 attendance too.
ChildIds == {Chars("s1"), Chars("s2"), Chars("s3")}

InitPerformance ==
  /\ user = [id |-> Chars("p1"), role |-> "parent"]
  /\ courseTable = <<>> /\ financeTable = <<>>
  /\ studentTable = <<Chars("s1"), Chars("s2"), Chars("s3")>>
  /\ gradeTable = <<[studentId |-> Chars("s1"), courseId |-> Chars("C1"), score |-> 10, maxScore |-> 10],
                    [studentId |-> Chars("s2"), courseId |-> Chars("C1"), score |-> 40, maxScore |-> 100],
                    [studentId |-> Chars("s3"), courseId |-> Chars("C1"), score |-> 23, maxScore |-> 40]>>
  /\ attendanceTable \in
       {<<[studentId |-> Chars("s1"), status |-> "present"],
          [studentId |-> Chars("s2"), status |-> "absent"]>>,
        <<[studentId |-> Chars("s2"), status |-> "late"]>>}
  /\ fetches = <<>>
  /\ clients = <<>> /\ AdminUsers = [users |-> <<>>] /\ toasts = <<>> /\ storeTasks = <<>>
  /\ PaymentsIdle /\ LoadersIdle /\ AuthIdle
  /\ ViewsIdle /\ TeacherIdle /\ StoreIdle /\ PagesIdle
  /\ StatusIdle /\ StatsIdle /\ IdsIdle

NextPerformance ==
  \/ \E child \in ChildIds : setSelectedChild(child)
  \/ \E i \in 1..Len(fetches) : loadRecordsResolves(i)
  \/ \E i \in 1..Len(fetches) : loadRecordsRejects(i)

SpecPerformance == InitPerformance /\ [][NextPerformance]_vars

NoFetchOutstanding == \A i \in 1..Len(fetches) : fetches[i].state # "outstanding"

\* The page shows what call i set when it settled.
ShowsCall(i) ==
  IF fetches[i].state = "resolved"
  THEN /\ Performance.childGrades = getGradesByStudent(fetches[i].child)
       /\ Performance.childAttendance = getAttendanceByStudent(fetches[i].child)
  ELSE Performance.childGrades = <<>> /\ Performance.childAttendance = <<>>

\* C28: once no fetch is outstanding, childGrades and childAttendance are
\* those of the currently selected child (both empty when that child's
\* fetches were rejected), whatever the order the answers came in.
C28_SelectedChildShown ==
  (fetches # <<>> /\ NoFetchOutstanding) =>
    /\ fetches[Len(fetches)].child = Performance.selectedChild
    /\ ShowsCall(Len(fetches))

\* What holds: once no fetch is outstanding, both lists are those one of the
\* calls set, grades and attendance of the same child.
ShowsOneCall ==
  (fetches # <<>> /\ NoFetchOutstanding) => \E i \in 1..Len(fetches) : ShowsCall(i)

(***************************************************************************)
(* Specification SpecSaves: the save handlers of AdminCourses and          *)
(* AdminUsers.  updateCourse, addCourse and addUser of store.ts are async  *)
(* functions and the handlers do not await them: a call runs up to its     *)
(* first await and gives the handler a Promise, and the rest of it runs    *)
(* when the backend has answered.                                          *)
(***************************************************************************)

\* The Promise a handler holds, as an entry of a list: it has no id.
PromiseObject == [id |-> <<>>, v |-> Chars("[object Promise]")]

SavesFrame ==
  UNCHANGED <<clients, fetches, outcome, varsPayments, varsLoaders, varsAuth, varsBackend,
              AdminFinance, varsDashboards, TeacherDashboard, AdminDashboard, AdminReports,
              courseStudents, varsTeacher, varsViews, varsStatus, varsStats, varsIds>>

\* What a save handler shows: the handler, the kind of toast, the store
\* operation it called, the id of the entity, and whether the operation
\* failed before it sent anything.
Toast(handler, kind, op, id, failed) ==
  [handler |-> handler, kind |-> kind, op |-> op, id |-> id, failed |-> failed]

\* AdminCourses.save with `editing` the entry of the page's list that
\* openEdit was called on, 0 for none (openCreate).
save(editing) ==
  /\ writeCalls < MaxCalls
  /\ writeCalls' = writeCalls + 1
  /\ IF editing # 0
     THEN LET id == AdminCourses.courses[editing].id
              idx == FindIndex(store.courses, id)
          IN /\ storeTasks' =
                  IF idx = 0 THEN storeTasks
                  ELSE Append(storeTasks,
                              [op |-> "updateCourse", idx |-> idx, stage |-> 1,
                               row |-> [store.courses[idx] EXCEPT !.v = Chars("y")]])
             /\ AdminCourses' =
                  [AdminCourses EXCEPT !.courses =
                     [k \in 1..Len(@) |-> IF @[k].id = PromiseObject.id
                                          THEN PromiseObject ELSE @[k]]]
             /\ toasts' = Append(toasts, Toast("save", "success", "updateCourse", id, idx = 0))
     ELSE /\ storeTasks' = Append(storeTasks,
                                   [op |-> "addCourse", idx |-> 0, stage |-> 1,
                                    row |-> [id |-> uuid(1), v |-> Chars("x")]])
          /\ AdminCourses' = [AdminCourses EXCEPT !.courses = <<PromiseObject>> \o @]
          /\ toasts' = Append(toasts, Toast("save", "success", "addCourse", uuid(1), FALSE))
  /\ UNCHANGED <<store, tables, AdminUsers>>
  /\ SavesFrame

\* Object.values(store.users) and the students that are no users.
AllUsers ==
  store.users \o SelectSeq(store.students, LAMBDA student : FindIndex(store.users, student.id) = 0)

\* AdminUsers.handleSubmit for a user of the given role.
handleSubmit(role) ==
  /\ writeCalls < MaxCalls
  /\ writeCalls' = writeCalls + 1
  /\ storeTasks' = Append(storeTasks, [op |-> "addUser", idx |-> 0, stage |-> 1,
                                       row |-> [id |-> uuid(1), v |-> role]])
  /\ AdminUsers' = [AdminUsers EXCEPT !.users = AllUsers]
  /\ toasts' = Append(toasts, Toast("handleSubmit", "success", "addUser", uuid(1), FALSE))
  /\ UNCHANGED <<store, tables, AdminCourses>>
  /\ SavesFrame

Without(tasks, i) == [k \in 1..(Len(tasks) - 1) |-> IF k < i THEN tasks[k] ELSE tasks[k + 1]]

\* The backend answers the request of task i and the store operation goes
\* on after its await: the answer is not read, the store is changed.
storeTaskResumes(i, answer) ==
  LET task == storeTasks[i]
  IN /\ tables' =
          IF task.op = "updateCourse"
          THEN [tables EXCEPT !.courses = Updated(@, task.row.id, task.row.v, answer)]
          ELSE IF task.op = "addCourse"
          THEN [tables EXCEPT !.courses = Inserted(@, <<task.row>>, answer)]
          ELSE IF task.stage = 1
          THEN [tables EXCEPT !.users = Inserted(@, <<task.row>>, answer)]
          ELSE [tables EXCEPT !.students = Inserted(@, <<task.row>>, answer)]
     /\ store' =
          IF task.op = "updateCourse"
          THEN [store EXCEPT !.courses[task.idx] = task.row]
          ELSE IF task.op = "addCourse"
          THEN [store EXCEPT !.courses = <<task.row>> \o @]
          ELSE IF task.stage = 1
          THEN [store EXCEPT !.users = Append(@, task.row)]
          ELSE [store EXCEPT !.students = Append(@, task.row)]
     /\ storeTasks' =
          IF task.op = "addUser" /\ task.stage = 1 /\ task.row.v = "student"
          THEN [storeTasks EXCEPT ![i].stage = 2]
          ELSE Without(storeTasks, i)
     /\ UNCHANGED <<writeCalls, toasts, AdminCourses, AdminUsers>>
     /\ SavesFrame

InitSaves ==
  /\ store = BootedStore
  /\ tables = BootedStore
  /\ outcome = NoCall
  /\ writeCalls = 0
  /\ AdminCourses = [courses |-> BootedStore.courses, deptFilter |-> "all"]
  /\ AdminUsers = [users |-> <<>>]
  /\ toasts = <<>> /\ storeTasks = <<>>
  /\ clients = <<>> /\ fetches = <<>>
  /\ AdminFinance = [rows |-> <<>>, loading |-> TRUE]
  /\ DashboardsIdle
  /\ TeacherDashboard = [courses |-> <<>>, grades |-> <<>>, loading |-> TRUE]
  /\ AdminDashboard = [courses |-> <<>>, loading |-> TRUE]
  /\ AdminReports = [courses |-> <<>>, loading |-> TRUE]
  /\ courseStudents = [courseId |-> <<>>, students |-> <<>>]
  /\ PaymentsIdle /\ LoadersIdle /\ AuthIdle
  /\ BackendIdle /\ TeacherIdle /\ ViewsIdle
  /\ StatusIdle /\ StatsIdle /\ IdsIdle

NextSaves ==
  \/ \E editing \in 0..Len(AdminCourses.courses) : save(editing)
  \/ \E role \in {"student", "teacher"} : handleSubmit(role)
  \/ \E i \in 1..Len(storeTasks), answer \in Answers : storeTaskResumes(i, answer)

SpecSaves == InitSaves /\ [][NextSaves]_vars

\* The store operation a toast is about is still waiting for the backend.
Waiting(toast) == \E i \in 1..Len(storeTasks) : storeTasks[i].row.id = toast.id

\* The list of the handler's page has the entity of the toast: the created
\* course or user, or the course with the saved value.
Displayed(toast) ==
  IF toast.handler = "handleSubmit"
  THEN FindIndex(AdminUsers.users, toast.id) # 0
  ELSE \E k \in 1..Len(AdminCourses.courses) :
         /\ AdminCourses.courses[k].id = toast.id
         /\ toast.op = "updateCourse" => AdminCourses.courses[k].v = Chars("y")

\* C29: a save handler has shown a success toast only for a store operation
\* that has finished and did not fail, and then the page's list holds the
\* created or updated entity; for a store operation that failed ('Course
\* not found') it has shown the error toast.
C29_SuccessAfterStore ==
  \A k \in 1..Len(toasts) :
    /\ toasts[k].failed => toasts[k].kind = "error"
    /\ toasts[k].kind = "success" => ~Waiting(toasts[k]) /\ Displayed(toasts[k])

\* What holds: every call of a handler shows one toast, and once no store
\* operation is waiting the store has every user handleSubmit created.
StoreCatchesUp ==
  /\ Len(toasts) = writeCalls
  /\ storeTasks = <<>> =>
       \A k \in 1..Len(toasts) :
         toasts[k].op = "addUser" => FindIndex(store.users, toasts[k].id) # 0

=============================================================================
